---- MODULE Spec2Model ----
(***************************************************************************)
(* Node registry, reputation and registration admission of the mixnet      *)
(* directory (package mixmining).                                          *)
(*                                                                         *)
(* The store (Db, gorm over SQLite) is modelled table by table: a table is *)
(* a function from the primary key (identity_key) to its row, a soft       *)
(* delete sets the row's `deleted` flag, and every scoped query sees only  *)
(* the rows whose flag is not set.  One SQL statement is one atomic step.  *)
(***************************************************************************)
EXTENDS Integers, Sequences, FiniteSets, Bags, TLC

VARIABLES
    mixes,            \* table registered_mixes:    identity_key -> row
    gateways,         \* table registered_gateways: identity_key -> row
    removedMixes,     \* table removed_mixes:    set of identity keys
    removedGateways,  \* table removed_gateways: set of identity keys
    lastOp,           \* the last Db method called on its own and the
                      \* identity it was called for
    ret,              \* the value it returned
    pc,               \* per goroutine: the statement it is about to run
    call,             \* per goroutine: arguments and locals of its call
    expected,         \* per identity: reputation at the start plus the
                      \* changes of the statements that affected a row
    mixCount,         \* controller.mixCount
    gatewayCount,     \* controller.gatewayCount
    registrationLock, \* controller.registrationLock: its holder, or "free"
    started,          \* the controller has been constructed
    resp,             \* per goroutine: the response to its last request
    clock,            \* the reading of the wall clock, in ticks
    statuses,         \* table persisted_mix_statuses: a bag of observations
    reports,          \* table mix_status_reports: pub_key -> report
    uptime,           \* the value the last uptime calculation returned
    cache             \* the topology cache: per view its snapshot, the time
                      \* of its last refresh and its refreshing flag, and
                      \* the rebuilds counted so far

dbvars == <<mixes, gateways, removedMixes, removedGateways>>
seqvars == <<lastOp, ret>>
procvars == <<pc, call>>
ctlvars == <<mixCount, gatewayCount, registrationLock, started, resp>>
repvars == <<statuses, reports, uptime, cache>>
bgvars == <<pc, call, expected, mixCount, gatewayCount, registrationLock,
            started, resp>>
vars == <<mixes, gateways, removedMixes, removedGateways, lastOp, ret,
          pc, call, expected, mixCount, gatewayCount, registrationLock,
          started, resp, clock, statuses, reports, uptime, cache>>

----------------------------------------------------------------------------
(* Inputs *)

Ids == {"a", "b"}
Procs == {"p1", "p2"}

SystemVersion == "0.9.2"
Versions == {SystemVersion, "0.9.1"}

\* Strings are sequences of one-character strings.  "1:7" and "1:8" share
\* the host "1", "2:7" has a host of its own; the host of "7:1" is a
\* substring of "1:7".
Addr17 == <<"1", ":", "7">>
Addr18 == <<"1", ":", "8">>
Addr27 == <<"2", ":", "7">>
Addr71 == <<"7", ":", "1">>
AddrNoPort == <<"1">>
Addrs == {Addr17, Addr18, Addr27, Addr71, AddrNoPort}
ClientsHost == <<"w", "7", ":", "9">>

\* cap of the reputation counter in this model
MaxRep == 2
\* last reading of the clock in this model
MaxClock == 3
Deltas == {-2, -1, 1}
SetVals == -1 .. MaxRep

----------------------------------------------------------------------------
(* Tables *)

\* rows a scoped (soft-delete aware) query sees
Live(tbl) == {i \in DOMAIN tbl : ~tbl[i].deleted}

\* the same statement with reputation among the columns updated
UpsertMix_ResetsReputation(tbl, id, addr, ver, now) ==
    [i \in DOMAIN tbl \cup {id} |->
        IF i = id
        THEN [host |-> addr, version |-> ver, deleted |-> FALSE,
              regTime |-> now, rep |-> 0]
        ELSE tbl[i]]

\* the same statement without registration_time among the columns updated
UpsertMix_KeepsTime(tbl, id, addr, ver, now) ==
    [i \in DOMAIN tbl \cup {id} |->
        IF i = id
        THEN [host |-> addr, version |-> ver, deleted |-> FALSE,
              regTime |-> IF id \in DOMAIN tbl THEN tbl[id].regTime ELSE now,
              rep |-> IF id \in DOMAIN tbl THEN tbl[id].rep ELSE 0]
        ELSE tbl[i]]

\* INSERT ... ON CONFLICT (identity_key) DO UPDATE SET mix_host, version,
\* registration_time, deleted, ...: reputation is not among the columns
\* updated, a fresh row gets the zero reputation of the struct.  The
\* registration time of the struct is zero, so Create fills it with the
\* reading of the clock (autoCreateTime:nano).
UpsertMix(tbl, id, addr, ver, now) ==
    [i \in DOMAIN tbl \cup {id} |->
        IF i = id
        THEN [host |-> addr, version |-> ver, deleted |-> FALSE,
              regTime |-> now,
              rep |-> IF id \in DOMAIN tbl THEN tbl[id].rep ELSE 0]
        ELSE tbl[i]]

UpsertGateway(tbl, id, addr, ver, now) ==
    [i \in DOMAIN tbl \cup {id} |->
        IF i = id
        THEN [host |-> addr, clientsHost |-> ClientsHost, version |-> ver,
              deleted |-> FALSE, regTime |-> now,
              rep |-> IF id \in DOMAIN tbl THEN tbl[id].rep ELSE 0]
        ELSE tbl[i]]

\* a statement that stamps a row reads the clock later than every statement
\* before it
Elapse ==
    /\ clock < MaxClock
    /\ clock' = clock + 1

\* DELETE on a model with a DeletedAt column: UPDATE ... SET deleted = now
\* WHERE identity_key = id AND deleted IS NULL
SoftDelete(tbl, id) ==
    [i \in DOMAIN tbl |->
        IF i = id /\ ~tbl[i].deleted THEN [tbl[i] EXCEPT !.deleted = TRUE]
        ELSE tbl[i]]

RowsAffected(tbl, id) == IF id \in Live(tbl) THEN 1 ELSE 0

\* UPDATE ... SET reputation = newRep WHERE identity_key = id
SetRep(tbl, id, newRep) ==
    [i \in DOMAIN tbl |->
        IF i = id /\ ~tbl[i].deleted THEN [tbl[i] EXCEPT !.rep = newRep]
        ELSE tbl[i]]

\* the WHERE clause of the reputation update: a decrement is conditioned on
\* reputation >= -repChange
CondHolds_NoFloor(tbl, id, repChange) == id \in Live(tbl)

CondHolds(tbl, id, repChange) ==
    /\ id \in Live(tbl)
    /\ repChange < 0 => tbl[id].rep >= -repChange

AddRep_Unconditioned(tbl, id, repChange) ==
    [i \in DOMAIN tbl |->
        IF i = id /\ ~tbl[i].deleted
        THEN [tbl[i] EXCEPT !.rep = @ + repChange]
        ELSE tbl[i]]

\* UPDATE ... SET reputation = reputation + repChange WHERE <CondHolds>
AddRep(tbl, id, repChange) ==
    [i \in DOMAIN tbl |->
        IF i = id /\ CondHolds(tbl, id, repChange)
        THEN [tbl[i] EXCEPT !.rep = @ + repChange]
        ELSE tbl[i]]

AddRepAffected(tbl, id, repChange) ==
    IF CondHolds(tbl, id, repChange) THEN 1 ELSE 0

----------------------------------------------------------------------------
(* Db methods, each run on its own (no other statement in between) *)

\* the same with the gateway statement run whatever the mix statement did
UpdateReputation_BothTables(m, g, id, repIncrease) ==
    [mixes |-> AddRep(m, id, repIncrease), gateways |-> AddRep(g, id, repIncrease),
     ret |-> AddRepAffected(m, id, repIncrease) + AddRepAffected(g, id, repIncrease) > 0]

\* Db.UpdateReputation: the mix table first, the gateway table only when
\* the mix statement affected no row.
UpdateReputation(m, g, id, repIncrease) ==
    IF AddRepAffected(m, id, repIncrease) > 0
    THEN [mixes |-> AddRep(m, id, repIncrease), gateways |-> g, ret |-> TRUE]
    ELSE IF AddRepAffected(g, id, repIncrease) > 0
    THEN [mixes |-> m, gateways |-> AddRep(g, id, repIncrease), ret |-> TRUE]
    ELSE [mixes |-> m, gateways |-> g, ret |-> FALSE]

RECURSIVE BatchUpdateReputation(_, _, _, _)

\* the same, given up at the first entry that changes no row
BatchUpdateReputation_GivenUp(m, g, reputationChangeMap, order) ==
    IF order = <<>> THEN [mixes |-> m, gateways |-> g]
    ELSE LET id == Head(order)
             repChange == reputationChangeMap[id]
             m1 == AddRep(m, id, repChange)
             g1 == IF AddRepAffected(m, id, repChange) = 0
                   THEN AddRep(g, id, repChange) ELSE g
         IN  IF m1 = m /\ g1 = g THEN [mixes |-> m, gateways |-> g]
             ELSE BatchUpdateReputation(m1, g1, reputationChangeMap, Tail(order))

\* Db.BatchUpdateReputation: `order` is the order in which the range over
\* the map happens to visit its keys.
BatchUpdateReputation(m, g, reputationChangeMap, order) ==
    IF order = <<>> THEN [mixes |-> m, gateways |-> g]
    ELSE LET id == Head(order)
             repChange == reputationChangeMap[id]
             m1 == AddRep(m, id, repChange)
             g1 == IF AddRepAffected(m, id, repChange) = 0
                   THEN AddRep(g, id, repChange) ELSE g
         IN  BatchUpdateReputation(m1, g1, reputationChangeMap, Tail(order))

\* the same with a value below zero refused
SetReputation_Floored(m, g, id, newRep) ==
    IF newRep < 0
    THEN [mixes |-> m, gateways |-> g, ret |-> FALSE]
    ELSE IF RowsAffected(m, id) > 0
    THEN [mixes |-> SetRep(m, id, newRep), gateways |-> g, ret |-> TRUE]
    ELSE IF RowsAffected(g, id) > 0
    THEN [mixes |-> m, gateways |-> SetRep(g, id, newRep), ret |-> TRUE]
    ELSE [mixes |-> m, gateways |-> g, ret |-> FALSE]

\* Db.SetReputation
SetReputation(m, g, id, newRep) ==
    IF RowsAffected(m, id) > 0
    THEN [mixes |-> SetRep(m, id, newRep), gateways |-> g, ret |-> TRUE]
    ELSE IF RowsAffected(g, id) > 0
    THEN [mixes |-> m, gateways |-> SetRep(g, id, newRep), ret |-> TRUE]
    ELSE [mixes |-> m, gateways |-> g, ret |-> FALSE]

\* Db.UnregisterNode
UnregisterNode(m, g, rm, rg, id) ==
    IF RowsAffected(m, id) > 0
    THEN [mixes |-> SoftDelete(m, id), gateways |-> g,
          removedMixes |-> rm \ {id}, removedGateways |-> rg, ret |-> TRUE]
    ELSE IF RowsAffected(g, id) > 0
    THEN [mixes |-> m, gateways |-> SoftDelete(g, id),
          removedMixes |-> rm, removedGateways |-> rg \ {id}, ret |-> TRUE]
    ELSE [mixes |-> m, gateways |-> g,
          removedMixes |-> rm, removedGateways |-> rg, ret |-> FALSE]

\* orders in which a map with key set S can be visited
Orders(S) ==
    {o \in [1 .. Cardinality(S) -> S] : \A i, j \in DOMAIN o : i # j => o[i] # o[j]}

\* the counter stays within the model's cap
WithinCap(tbl, id, d) == id \in DOMAIN tbl => tbl[id].rep + d <= MaxRep

DbRegisterMix(id, addr, ver) ==
    /\ Elapse
    /\ mixes' = UpsertMix(mixes, id, addr, ver, clock')
    /\ removedMixes' = removedMixes \ {id}
    /\ lastOp' = [op |-> "RegisterMix", id |-> id]
    /\ UNCHANGED <<gateways, removedGateways, ret, bgvars, repvars>>

DbRegisterGateway(id, addr, ver) ==
    /\ Elapse
    /\ gateways' = UpsertGateway(gateways, id, addr, ver, clock')
    /\ removedGateways' = removedGateways \ {id}
    /\ lastOp' = [op |-> "RegisterGateway", id |-> id]
    /\ UNCHANGED <<mixes, removedMixes, ret, bgvars, repvars>>

DbUnregisterNode(id) ==
    LET r == UnregisterNode(mixes, gateways, removedMixes, removedGateways, id)
    IN  /\ mixes' = r.mixes
        /\ gateways' = r.gateways
        /\ removedMixes' = r.removedMixes
        /\ removedGateways' = r.removedGateways
        /\ ret' = r.ret
        /\ lastOp' = [op |-> "UnregisterNode", id |-> id]
        /\ UNCHANGED <<bgvars, clock, repvars>>

DbSetReputation(id, newRep) ==
    LET r == SetReputation(mixes, gateways, id, newRep)
    IN  /\ mixes' = r.mixes
        /\ gateways' = r.gateways
        /\ ret' = r.ret
        /\ lastOp' = [op |-> "SetReputation", id |-> id]
        /\ UNCHANGED <<removedMixes, removedGateways, bgvars, clock, repvars>>

DbUpdateReputation(id, repIncrease) ==
    /\ WithinCap(mixes, id, repIncrease)
    /\ WithinCap(gateways, id, repIncrease)
    /\ LET r == UpdateReputation(mixes, gateways, id, repIncrease)
       IN  /\ mixes' = r.mixes
           /\ gateways' = r.gateways
           /\ ret' = r.ret
    /\ lastOp' = [op |-> "UpdateReputation", id |-> id]
    /\ UNCHANGED <<removedMixes, removedGateways, bgvars, clock, repvars>>

DbBatchUpdateReputation(reputationChangeMap, order) ==
    /\ \A id \in DOMAIN reputationChangeMap :
          /\ WithinCap(mixes, id, reputationChangeMap[id])
          /\ WithinCap(gateways, id, reputationChangeMap[id])
    /\ LET r == BatchUpdateReputation(mixes, gateways, reputationChangeMap, order)
       IN  /\ mixes' = r.mixes
           /\ gateways' = r.gateways
    /\ lastOp' = [op |-> "BatchUpdateReputation", id |-> "*"]
    /\ UNCHANGED <<removedMixes, removedGateways, ret, bgvars, clock, repvars>>

\* a fresh store
EmptyTable == [i \in {} |-> 0]

\* a goroutine that is in no call
NoCall == [op |-> "none", id |-> "*", d |-> 0, map |-> <<>>, order |-> <<>>,
           addr |-> <<>>, ver |-> "", n |-> 0]
NoResp == [op |-> "none", status |-> 0]

\* the views of the topology cache
Views == {"full", "active", "removed"}

\* the cache of a service that serves no topology
NoCache ==
    [view |-> [v \in Views |-> [snapshot |-> [mixNodes |-> {}, gateways |-> {}],
                                lastRefreshedAt |-> 0,
                                refreshing |-> FALSE]],
     rebuilds |-> [v \in Views |-> 0],
     failures |-> [v \in Views |-> 0]]

\* nothing has been called
Idle ==
    /\ lastOp = [op |-> "none", id |-> "*"]
    /\ ret = FALSE
    /\ pc = [p \in Procs |-> "idle"]
    /\ call = [p \in Procs |-> NoCall]
    /\ mixCount = 0
    /\ gatewayCount = 0
    /\ registrationLock = "free"
    /\ started = FALSE
    /\ resp = [p \in Procs |-> NoResp]

\* and the store holds no observation and no report
Quiet ==
    /\ Idle
    /\ statuses = EmptyBag
    /\ reports = EmptyTable
    /\ uptime = 0
    /\ cache = NoCache

InitDb ==
    /\ mixes = EmptyTable
    /\ gateways = EmptyTable
    /\ removedMixes = {}
    /\ removedGateways = {}
    /\ expected = [i \in Ids |-> 0]
    /\ clock = 0
    /\ Quiet

NextDb ==
    \/ \E id \in Ids : DbRegisterMix(id, Addr18, SystemVersion)
    \/ \E id \in Ids : DbRegisterGateway(id, Addr18, SystemVersion)
    \/ \E id \in Ids : DbUnregisterNode(id)
    \/ \E id \in Ids, v \in SetVals : DbSetReputation(id, v)
    \/ \E id \in Ids, d \in Deltas : DbUpdateReputation(id, d)
    \/ \E S \in SUBSET Ids : \E map \in [S -> Deltas], o \in Orders(S) :
          DbBatchUpdateReputation(map, o)

SpecDb == InitDb /\ [][NextDb]_vars

----------------------------------------------------------------------------
(* Reputation floor *)

\* C1: every registered mix and gateway has reputation >= 0 in every
\* reachable state, whatever RegisterMix/RegisterGateway, UpdateReputation,
\* BatchUpdateReputation and SetReputation calls have been applied.
ReputationNonNegative ==
    /\ \A i \in Live(mixes) : mixes[i].rep >= 0
    /\ \A i \in Live(gateways) : gateways[i].rep >= 0

\* the rows a decrement of n for identity id is applied to: the mix row when
\* it is registered with at least n, else the gateway row under the same test
MixTakes(id, n) == id \in Live(mixes) /\ mixes[id].rep >= n
GatewayTakes(id, n) ==
    ~MixTakes(id, n) /\ id \in Live(gateways) /\ gateways[id].rep >= n

----------------------------------------------------------------------------
(* Reputation updates of two goroutines, statement by statement *)

\* values the reporting path passes as a change of reputation
UpdDeltas == {-2, 1}

\* sum of the reputation stored under an identity
RepOf(tbl, id) == IF id \in DOMAIN tbl THEN tbl[id].rep ELSE 0
TotalRep(id) == RepOf(mixes, id) + RepOf(gateways, id)

\* the UPDATE of one table, with the bookkeeping of what it affected
StmtOn(tbl, id, d) ==
    [tbl |-> AddRep(tbl, id, d),
     hit |-> AddRepAffected(tbl, id, d) > 0]

Account(id, d, hit) ==
    expected' = IF hit THEN [expected EXCEPT ![id] = @ + d] ELSE expected

\* Db.UpdateReputation, the statement on registered_mixes
UpdMixStmt(p, id, d) ==
    /\ pc[p] = "idle"
    /\ WithinCap(mixes, id, d)
    /\ LET st == StmtOn(mixes, id, d)
       IN  /\ mixes' = st.tbl
           /\ Account(id, d, st.hit)
           /\ pc' = [pc EXCEPT ![p] = IF st.hit THEN "idle" ELSE "upd_gw"]
           /\ call' = [call EXCEPT ![p] = IF st.hit THEN NoCall
                                          ELSE [NoCall EXCEPT !.id = id, !.d = d]]
    /\ UNCHANGED <<gateways, removedMixes, removedGateways, seqvars, ctlvars, clock, repvars>>

\* Db.UpdateReputation, the statement on registered_gateways
UpdGatewayStmt(p) ==
    /\ pc[p] = "upd_gw"
    /\ WithinCap(gateways, call[p].id, call[p].d)
    /\ LET st == StmtOn(gateways, call[p].id, call[p].d)
       IN  /\ gateways' = st.tbl
           /\ Account(call[p].id, call[p].d, st.hit)
    /\ pc' = [pc EXCEPT ![p] = "idle"]
    /\ call' = [call EXCEPT ![p] = NoCall]
    /\ UNCHANGED <<mixes, removedMixes, removedGateways, seqvars, ctlvars, clock, repvars>>

\* Db.BatchUpdateReputation is entered with a map of at least one entry
BatchBegin(p, reputationChangeMap, order) ==
    /\ pc[p] = "idle"
    /\ pc' = [pc EXCEPT ![p] = "batch_mix"]
    /\ call' = [call EXCEPT ![p] =
                  [NoCall EXCEPT !.map = reputationChangeMap, !.order = order]]
    /\ UNCHANGED <<dbvars, seqvars, ctlvars, expected, clock, repvars>>

\* where the loop goes after the entry at the head of `order` is done
BatchAdvance(p) ==
    /\ pc' = [pc EXCEPT ![p] = IF Len(call[p].order) > 1 THEN "batch_mix"
                                ELSE "idle"]
    /\ call' = [call EXCEPT ![p] = IF Len(call[p].order) > 1
                                   THEN [@ EXCEPT !.order = Tail(@)]
                                   ELSE NoCall]

BatchMixStmt(p) ==
    /\ pc[p] = "batch_mix"
    /\ LET id == Head(call[p].order)
           d == call[p].map[id]
           st == StmtOn(mixes, id, d)
       IN  /\ WithinCap(mixes, id, d)
           /\ mixes' = st.tbl
           /\ Account(id, d, st.hit)
           /\ IF st.hit THEN BatchAdvance(p)
              ELSE pc' = [pc EXCEPT ![p] = "batch_gw"] /\ call' = call
    /\ UNCHANGED <<gateways, removedMixes, removedGateways, seqvars, ctlvars, clock, repvars>>

BatchGatewayStmt(p) ==
    /\ pc[p] = "batch_gw"
    /\ LET id == Head(call[p].order)
           d == call[p].map[id]
           st == StmtOn(gateways, id, d)
       IN  /\ WithinCap(gateways, id, d)
           /\ gateways' = st.tbl
           /\ Account(id, d, st.hit)
    /\ BatchAdvance(p)
    /\ UNCHANGED <<mixes, removedMixes, removedGateways, seqvars, ctlvars, clock, repvars>>

\* rows registered before the first reading of the clock
NewRow(addr, r) ==
    [host |-> addr, version |-> SystemVersion, deleted |-> FALSE,
     regTime |-> 0, rep |-> r]
NewGatewayRow(addr, r) ==
    [host |-> addr, clientsHost |-> ClientsHost, version |-> SystemVersion,
     deleted |-> FALSE, regTime |-> 0, rep |-> r]

\* "a" is registered as a mix and as a gateway, "b" as a gateway
InitUpd ==
    /\ \E r \in 0 .. MaxRep : mixes = [i \in {"a"} |-> NewRow(Addr17, r)]
    /\ \E ra, rb \in 0 .. MaxRep :
          gateways = [i \in Ids |-> NewGatewayRow(Addr18, IF i = "a" THEN ra ELSE rb)]
    /\ removedMixes = {}
    /\ removedGateways = {}
    /\ expected = [i \in Ids |-> TotalRep(i)]
    /\ clock = 1
    /\ Quiet

NextUpd ==
    \/ \E p \in Procs, id \in Ids, d \in UpdDeltas : UpdMixStmt(p, id, d)
    \/ \E p \in Procs : UpdGatewayStmt(p)
    \/ \E p \in Procs, S \in SUBSET Ids \ {{}} :
          \E map \in [S -> UpdDeltas], o \in Orders(S) : BatchBegin(p, map, o)
    \/ \E p \in Procs : BatchMixStmt(p)
    \/ \E p \in Procs : BatchGatewayStmt(p)

SpecUpd == InitUpd /\ [][NextUpd]_vars

\* C3: under every interleaving of the statements of concurrent
\* UpdateReputation and BatchUpdateReputation calls the reputation stored
\* under an identity is its initial reputation plus the changes of exactly
\* the statements that affected a row, and no row is ever below 0.
NoUpdateLost ==
    /\ \A id \in Ids : TotalRep(id) = expected[id]
    /\ ReputationNonNegative

\* one goroutine is between the two statements of UpdateReputation for "a"
\* (its decrement found too little on the mix), the other between the two
\* statements of a batch entry for "a", and the gateway "a" holds enough
\* for one of the two decrements only
InterleavedUpdatesSeen ==
    /\ pc["p1"] = "upd_gw" /\ call["p1"].id = "a" /\ call["p1"].d = -2
    /\ pc["p2"] = "batch_gw" /\ Head(call["p2"].order) = "a"
    /\ gateways["a"].rep = 2

----------------------------------------------------------------------------
(* Addresses *)

Colons(s) == {i \in DOMAIN s : s[i] = ":"}

\* net.SplitHostPort on an address without brackets: exactly one colon, the
\* host in front of it; anything else is an error, and the host is ""
SplitHostPort(s) ==
    IF Cardinality(Colons(s)) = 1
    THEN [host |-> SubSeq(s, 1, (CHOOSE i \in Colons(s) : TRUE) - 1), err |-> FALSE]
    ELSE [host |-> <<>>, err |-> TRUE]

\* LIKE '%needle%'
Contains(hay, needle) ==
    \E i \in 1 .. Len(hay) + 1 :
        /\ i + Len(needle) - 1 <= Len(hay)
        /\ SubSeq(hay, i, i + Len(needle) - 1) = needle

\* Db.IpExists.  `ip` is reassigned by the call of SplitHostPort, so on an
\* error it is the empty string that is split at the colons.
IpExists(m, g, addr) ==
    LET r == SplitHostPort(addr)
        chunks == Cardinality(Colons(r.host)) + 1
        ip == IF r.err
              THEN SubSeq(r.host, 1, (CHOOSE i \in Colons(r.host) \cup {1} : TRUE) - 1)
              ELSE r.host
    IN  IF r.err /\ chunks # 2 THEN TRUE
        ELSE \/ \E i \in Live(m) : Contains(m[i].host, ip)
             \/ \E i \in Live(g) : \/ Contains(g[i].host, ip)
                                   \/ Contains(g[i].clientsHost, ip)

\* Db.GetNodeMixHost: an unscoped lookup, the mix table first
GetNodeMixHost(m, g, pubkey) ==
    IF pubkey \in DOMAIN m /\ m[pubkey].host # <<>> THEN m[pubkey].host
    ELSE IF pubkey \in DOMAIN g /\ g[pubkey].host # <<>> THEN g[pubkey].host
    ELSE <<>>

----------------------------------------------------------------------------
(* Service *)

\* the capacity ceilings, 1500 and 1000 in the controller, scaled to the two
\* identities of this model
MaximumMixnodes == 1
MaximumGateways == 1

\* Service.MixCount, Service.GatewayCount: the registered nodes of a kind
MixCount(m) == Cardinality(Live(m))
GatewayCount(g) == Cardinality(Live(g))

\* Db.MoveToRemovedSet: a registered node leaves its table for the removed
\* table of its kind
MoveToRemovedSet(db, id) ==
    IF id \in Live(db.mixes)
    THEN [db EXCEPT !.mixes = SoftDelete(@, id), !.removedMixes = @ \cup {id}]
    ELSE IF id \in Live(db.gateways)
    THEN [db EXCEPT !.gateways = SoftDelete(@, id),
                    !.removedGateways = @ \cup {id}]
    ELSE db

RECURSIVE BatchMoveToRemovedSet(_, _)
BatchMoveToRemovedSet(db, ids) ==
    IF ids = {} THEN db
    ELSE LET id == CHOOSE i \in ids : TRUE
         IN  BatchMoveToRemovedSet(MoveToRemovedSet(db, id), ids \ {id})

Store == [mixes |-> mixes, gateways |-> gateways,
          removedMixes |-> removedMixes, removedGateways |-> removedGateways]

SetStore(db) ==
    /\ mixes' = db.mixes
    /\ gateways' = db.gateways
    /\ removedMixes' = db.removedMixes
    /\ removedGateways' = db.removedGateways

\* Service.StartupPurge: every registered node of another version is moved
\* to the removed set, the mixes first
Outdated(tbl) == {i \in Live(tbl) : tbl[i].version # SystemVersion}
StartupPurge(db) ==
    LET afterMixes == BatchMoveToRemovedSet(db, Outdated(db.mixes))
    IN  BatchMoveToRemovedSet(afterMixes, Outdated(afterMixes.gateways))

\* New: the counts are read, then the purge runs
Startup ==
    /\ ~started
    /\ mixCount' = MixCount(mixes)
    /\ gatewayCount' = GatewayCount(gateways)
    /\ SetStore(StartupPurge(Store))
    /\ started' = TRUE
    /\ UNCHANGED <<seqvars, procvars, expected, registrationLock, resp, clock, repvars>>

----------------------------------------------------------------------------
(* Controller: one goroutine per request, one step per access to the store *)
(* or to the fields of the controller                                       *)

Goto(p, l) == pc' = [pc EXCEPT ![p] = l]

\* the handler writes its response and returns
Finish(p, op, status) ==
    /\ pc' = [pc EXCEPT ![p] = "idle"]
    /\ call' = [call EXCEPT ![p] = NoCall]
    /\ resp' = [resp EXCEPT ![p] = [op |-> op, status |-> status]]

\* the handler answers 409 Conflict and returns
Reject_ResetsCounts(p, op) ==
    /\ Finish(p, op, 409)
    /\ mixCount' = 0 /\ gatewayCount' = 0
    /\ UNCHANGED dbvars

Reject(p, op) ==
    /\ Finish(p, op, 409)
    /\ UNCHANGED <<dbvars, mixCount, gatewayCount>>

\* the handler goes on to its next statement
Pass(p, l) ==
    /\ Goto(p, l)
    /\ UNCHANGED <<dbvars, mixCount, gatewayCount>>

\* presence.Version != SystemVersion
VersionOk_Any(ver) == TRUE

VersionOk(ver) == ver = SystemVersion

\* addresses a node announces
RegAddrs(id) == IF id = "a" THEN {Addr17} ELSE {Addr18, Addr27}

\* RegisterMixPresence: the check of the cached count on entry
MixCheck1(p) ==
    /\ started /\ pc[p] = "idle"
    /\ IF mixCount >= MaximumMixnodes
       THEN Reject(p, "RegisterMixPresence")
       ELSE /\ Pass(p, "m_dup")
            /\ resp' = [resp EXCEPT ![p] = NoResp]
            /\ call' = call
    /\ UNCHANGED <<seqvars, expected, registrationLock, started, clock, repvars>>

\* RegisterMixPresence: the body is bound, then CheckForDuplicateIP and the
\* comparison of the version
MixDupVersion(p, id, addr, ver) ==
    /\ pc[p] = "m_dup"
    /\ IF IpExists(mixes, gateways, addr) \/ ~VersionOk(ver)
       THEN Reject(p, "RegisterMixPresence")
       ELSE /\ Pass(p, "m_check2")
            /\ call' = [call EXCEPT ![p] = [NoCall EXCEPT !.id = id, !.addr = addr,
                                                       !.ver = ver]]
            /\ resp' = resp
    /\ UNCHANGED <<seqvars, expected, registrationLock, started, clock, repvars>>

MixCheck2(p) ==
    /\ pc[p] = "m_check2"
    /\ IF mixCount >= MaximumMixnodes
       THEN Reject(p, "RegisterMixPresence")
       ELSE Pass(p, "m_lock") /\ UNCHANGED <<call, resp>>
    /\ UNCHANGED <<seqvars, expected, registrationLock, started, clock, repvars>>

MixLock(p) ==
    /\ pc[p] = "m_lock"
    /\ registrationLock = "free"
    /\ registrationLock' = p
    /\ Goto(p, "m_check3")
    /\ UNCHANGED <<dbvars, seqvars, expected, mixCount, gatewayCount,
                   started, call, resp, clock, repvars>>

\* the check under the lock; the deferred Unlock runs on the return
MixCheck3(p) ==
    /\ pc[p] = "m_check3"
    /\ IF mixCount >= MaximumMixnodes
       THEN Reject(p, "RegisterMixPresence") /\ registrationLock' = "free"
       ELSE Pass(p, "m_upsert") /\ UNCHANGED <<call, resp, registrationLock>>
    /\ UNCHANGED <<seqvars, expected, started, clock, repvars>>

\* Db.RegisterMix, first statement
MixUpsert(p) ==
    /\ pc[p] = "m_upsert"
    /\ Elapse
    /\ mixes' = UpsertMix(mixes, call[p].id, call[p].addr, call[p].ver, clock')
    /\ Goto(p, "m_clear")
    /\ UNCHANGED <<gateways, removedMixes, removedGateways, seqvars, expected,
                   ctlvars, call, repvars>>

\* Db.RegisterMix, second statement
MixClearRemoved(p) ==
    /\ pc[p] = "m_clear"
    /\ removedMixes' = removedMixes \ {call[p].id}
    /\ Goto(p, "m_count")
    /\ UNCHANGED <<mixes, gateways, removedGateways, seqvars, expected,
                   ctlvars, call, clock, repvars>>

MixCountRead(p) ==
    /\ pc[p] = "m_count"
    /\ call' = [call EXCEPT ![p].n = MixCount(mixes)]
    /\ Goto(p, "m_store")
    /\ UNCHANGED <<dbvars, seqvars, expected, ctlvars, clock, repvars>>

MixCountStore(p) ==
    /\ pc[p] = "m_store"
    /\ mixCount' = call[p].n
    /\ registrationLock' = "free"
    /\ Finish(p, "RegisterMixPresence", 200)
    /\ UNCHANGED <<dbvars, seqvars, expected, gatewayCount, started, clock, repvars>>

\* RegisterGatewayPresence
GatewayCheck(p) ==
    /\ started /\ pc[p] = "idle"
    /\ IF gatewayCount >= MaximumGateways
       THEN Reject(p, "RegisterGatewayPresence")
       ELSE /\ Pass(p, "g_dup")
            /\ resp' = [resp EXCEPT ![p] = NoResp]
            /\ call' = call
    /\ UNCHANGED <<seqvars, expected, registrationLock, started, clock, repvars>>

GatewayDupVersion(p, id, addr, ver) ==
    /\ pc[p] = "g_dup"
    /\ IF IpExists(mixes, gateways, addr) \/ ~VersionOk(ver)
       THEN Reject(p, "RegisterGatewayPresence")
       ELSE /\ Pass(p, "g_upsert")
            /\ call' = [call EXCEPT ![p] = [NoCall EXCEPT !.id = id, !.addr = addr,
                                                       !.ver = ver]]
            /\ resp' = resp
    /\ UNCHANGED <<seqvars, expected, registrationLock, started, clock, repvars>>

GatewayUpsert(p) ==
    /\ pc[p] = "g_upsert"
    /\ Elapse
    /\ gateways' = UpsertGateway(gateways, call[p].id, call[p].addr, call[p].ver,
                                 clock')
    /\ Goto(p, "g_clear")
    /\ UNCHANGED <<mixes, removedMixes, removedGateways, seqvars, expected,
                   ctlvars, call, repvars>>

GatewayClearRemoved(p) ==
    /\ pc[p] = "g_clear"
    /\ removedGateways' = removedGateways \ {call[p].id}
    /\ Goto(p, "g_count")
    /\ UNCHANGED <<mixes, gateways, removedMixes, seqvars, expected,
                   ctlvars, call, clock, repvars>>

GatewayCountRead(p) ==
    /\ pc[p] = "g_count"
    /\ call' = [call EXCEPT ![p].n = GatewayCount(gateways)]
    /\ Goto(p, "g_store")
    /\ UNCHANGED <<dbvars, seqvars, expected, ctlvars, clock, repvars>>

GatewayCountStore(p) ==
    /\ pc[p] = "g_store"
    /\ gatewayCount' = call[p].n
    /\ Finish(p, "RegisterGatewayPresence", 200)
    /\ UNCHANGED <<dbvars, seqvars, expected, mixCount, registrationLock,
                   started, clock, repvars>>

\* changes of reputation the reporting path applies for an observation
ReportSuccessReputationIncrease == 1
ReportFailureReputationDecrease == -2

\* addresses a request can come from
RemoteIPs == {<<>>, <<"1">>, <<"2">>}

\* the same without the comparison of the caller's address
ServiceUnregisterNode_AnyCaller(db, id, remoteIP) ==
    LET host == GetNodeMixHost(db.mixes, db.gateways, id)
        r == UnregisterNode(db.mixes, db.gateways, db.removedMixes,
                            db.removedGateways, id)
    IN  IF remoteIP = <<>> THEN [status |-> 400, db |-> db]
        ELSE IF host = <<>> THEN [status |-> 404, db |-> db]
        ELSE [status |-> 200,
              db |-> [mixes |-> r.mixes, gateways |-> r.gateways,
                      removedMixes |-> r.removedMixes,
                      removedGateways |-> r.removedGateways]]

\* Service.UnregisterNode: the status, and the store it leaves
ServiceUnregisterNode(db, id, remoteIP) ==
    LET host == GetNodeMixHost(db.mixes, db.gateways, id)
        r == UnregisterNode(db.mixes, db.gateways, db.removedMixes,
                            db.removedGateways, id)
    IN  IF remoteIP = <<>> THEN [status |-> 400, db |-> db]
        ELSE IF host = <<>> THEN [status |-> 404, db |-> db]
        ELSE IF SplitHostPort(host).host # remoteIP THEN [status |-> 403, db |-> db]
        ELSE [status |-> 200,
              db |-> [mixes |-> r.mixes, gateways |-> r.gateways,
                      removedMixes |-> r.removedMixes,
                      removedGateways |-> r.removedGateways]]

\* UnregisterPresence up to the return of the service
Unregister(p, id, remoteIP) ==
    /\ started /\ pc[p] = "idle"
    /\ LET r == ServiceUnregisterNode(Store, id, remoteIP)
       IN  /\ SetStore(r.db)
           /\ IF r.status = 200
              THEN /\ Goto(p, "rf_mix")
                   /\ call' = [call EXCEPT ![p] = [NoCall EXCEPT !.op = "UnregisterPresence"]]
                   /\ resp' = [resp EXCEPT ![p] = NoResp]
              ELSE Finish(p, "UnregisterPresence", r.status)
    /\ UNCHANGED <<seqvars, expected, mixCount, gatewayCount, registrationLock,
                   started, clock, repvars>>

\* the same with the eviction tried after every observation
SaveStatusReport_AfterEvery(db, id, up, evict) ==
    LET r == UpdateReputation(db.mixes, db.gateways, id,
                              IF up THEN ReportSuccessReputationIncrease
                              ELSE ReportFailureReputationDecrease)
        db1 == [db EXCEPT !.mixes = r.mixes, !.gateways = r.gateways]
    IN  IF evict THEN MoveToRemovedSet(db1, id) ELSE db1

\* Service.SaveStatusReport as far as the registry goes: the reputation of
\* the node changes with the observation, and after a failed observation
\* the node is evicted when its report says so
SaveStatusReport(db, id, up, evict) ==
    LET r == UpdateReputation(db.mixes, db.gateways, id,
                              IF up THEN ReportSuccessReputationIncrease
                              ELSE ReportFailureReputationDecrease)
        db1 == [db EXCEPT !.mixes = r.mixes, !.gateways = r.gateways]
    IN  IF ~up /\ evict THEN MoveToRemovedSet(db1, id) ELSE db1

\* CreateMixStatus up to the return of the service
CreateMixStatus(p, id, up, evict) ==
    /\ started /\ pc[p] = "idle"
    /\ up => WithinCap(mixes, id, ReportSuccessReputationIncrease)
             /\ WithinCap(gateways, id, ReportSuccessReputationIncrease)
    /\ SetStore(SaveStatusReport(Store, id, up, evict))
    /\ Goto(p, "rf_mix")
    /\ call' = [call EXCEPT ![p] = [NoCall EXCEPT !.op = "CreateMixStatus"]]
    /\ resp' = [resp EXCEPT ![p] = NoResp]
    /\ UNCHANGED <<seqvars, expected, mixCount, gatewayCount, registrationLock,
                   started, clock, repvars>>

\* controller.mixCount = controller.service.MixCount(): the call ...
RefreshMixRead(p) ==
    /\ pc[p] = "rf_mix"
    /\ call' = [call EXCEPT ![p].n = MixCount(mixes)]
    /\ Goto(p, "rf_mix_store")
    /\ UNCHANGED <<dbvars, seqvars, expected, ctlvars, clock, repvars>>

\* ... and the assignment
RefreshMixStore(p) ==
    /\ pc[p] = "rf_mix_store"
    /\ mixCount' = call[p].n
    /\ Goto(p, "rf_gw")
    /\ UNCHANGED <<dbvars, seqvars, expected, gatewayCount, registrationLock,
                   started, resp, call, clock, repvars>>

RefreshGatewayRead(p) ==
    /\ pc[p] = "rf_gw"
    /\ call' = [call EXCEPT ![p].n = GatewayCount(gateways)]
    /\ Goto(p, "rf_gw_store")
    /\ UNCHANGED <<dbvars, seqvars, expected, ctlvars, clock, repvars>>

RefreshGatewayStore(p) ==
    /\ pc[p] = "rf_gw_store"
    /\ gatewayCount' = call[p].n
    /\ Finish(p, call[p].op, IF call[p].op = "CreateMixStatus" THEN 201 ELSE 200)
    /\ UNCHANGED <<dbvars, seqvars, expected, mixCount, registrationLock,
                   started, clock, repvars>>

\* what the store holds when the process starts: nothing, or nodes that
\* registered with an earlier release, at an earlier reading of the clock
OldRow(addr) == [NewRow(addr, 0) EXCEPT !.version = "0.9.1"]
OldGatewayRow(addr) == [NewGatewayRow(addr, 0) EXCEPT !.version = "0.9.1"]

\* the store of a process that serves mixes only
InitMix ==
    /\ mixes \in {EmptyTable, [i \in {"a"} |-> OldRow(Addr17)]}
    /\ gateways = EmptyTable
    /\ removedMixes = {}
    /\ removedGateways = {}
    /\ expected = [i \in Ids |-> 0]
    /\ clock = 1
    /\ Quiet

\* two goroutines serving mix registrations, observations and unregistrations
NextMix ==
    \/ Startup
    \/ \E p \in Procs : MixCheck1(p)
    \/ \E p \in Procs, id \in Ids, ver \in Versions :
          \E addr \in RegAddrs(id) : MixDupVersion(p, id, addr, ver)
    \/ \E p \in Procs : MixCheck2(p)
    \/ \E p \in Procs : MixLock(p)
    \/ \E p \in Procs : MixCheck3(p)
    \/ \E p \in Procs : MixUpsert(p)
    \/ \E p \in Procs : MixClearRemoved(p)
    \/ \E p \in Procs : MixCountRead(p)
    \/ \E p \in Procs : MixCountStore(p)
    \/ \E p \in Procs, id \in Ids, ip \in RemoteIPs : Unregister(p, id, ip)
    \/ \E p \in Procs, id \in Ids, up \in BOOLEAN, evict \in BOOLEAN :
          CreateMixStatus(p, id, up, evict)
    \/ \E p \in Procs : RefreshMixRead(p)
    \/ \E p \in Procs : RefreshMixStore(p)
    \/ \E p \in Procs : RefreshGatewayRead(p)
    \/ \E p \in Procs : RefreshGatewayStore(p)

SpecMix == InitMix /\ [][NextMix]_vars

\* the store of a process that serves gateways only
InitGateway ==
    /\ mixes = EmptyTable
    /\ gateways \in {EmptyTable, [i \in {"b"} |-> OldGatewayRow(Addr27)]}
    /\ removedMixes = {}
    /\ removedGateways = {}
    /\ expected = [i \in Ids |-> 0]
    /\ clock = 1
    /\ Quiet

\* two goroutines serving gateway registrations and unregistrations
NextGateway ==
    \/ Startup
    \/ \E p \in Procs : GatewayCheck(p)
    \/ \E p \in Procs, id \in Ids, ver \in Versions :
          \E addr \in RegAddrs(id) : GatewayDupVersion(p, id, addr, ver)
    \/ \E p \in Procs : GatewayUpsert(p)
    \/ \E p \in Procs : GatewayClearRemoved(p)
    \/ \E p \in Procs : GatewayCountRead(p)
    \/ \E p \in Procs : GatewayCountStore(p)
    \/ \E p \in Procs, id \in Ids, ip \in RemoteIPs : Unregister(p, id, ip)
    \/ \E p \in Procs : RefreshMixRead(p)
    \/ \E p \in Procs : RefreshMixStore(p)
    \/ \E p \in Procs : RefreshGatewayRead(p)
    \/ \E p \in Procs : RefreshGatewayStore(p)

SpecGateway == InitGateway /\ [][NextGateway]_vars

InitReg ==
    /\ mixes \in {EmptyTable, [i \in {"a"} |-> OldRow(Addr17)]}
    /\ gateways \in {EmptyTable, [i \in {"b"} |-> OldGatewayRow(Addr27)]}
    /\ removedMixes = {}
    /\ removedGateways = {}
    /\ expected = [i \in Ids |-> 0]
    /\ clock = 1
    /\ Quiet

\* the goroutine of a process that serves one request at a time
Solo == {"p1"}

\* every handler, mixes and gateways, one request after the other
NextReg ==
    \/ Startup
    \/ \E p \in Solo : MixCheck1(p)
    \/ \E p \in Solo, id \in Ids, ver \in Versions :
          \E addr \in RegAddrs(id) : MixDupVersion(p, id, addr, ver)
    \/ \E p \in Solo : MixCheck2(p)
    \/ \E p \in Solo : MixLock(p)
    \/ \E p \in Solo : MixCheck3(p)
    \/ \E p \in Solo : MixUpsert(p)
    \/ \E p \in Solo : MixClearRemoved(p)
    \/ \E p \in Solo : MixCountRead(p)
    \/ \E p \in Solo : MixCountStore(p)
    \/ \E p \in Solo : GatewayCheck(p)
    \/ \E p \in Solo, id \in Ids, ver \in Versions :
          \E addr \in RegAddrs(id) : GatewayDupVersion(p, id, addr, ver)
    \/ \E p \in Solo : GatewayUpsert(p)
    \/ \E p \in Solo : GatewayClearRemoved(p)
    \/ \E p \in Solo : GatewayCountRead(p)
    \/ \E p \in Solo : GatewayCountStore(p)
    \/ \E p \in Solo, id \in Ids, ip \in RemoteIPs : Unregister(p, id, ip)
    \/ \E p \in Solo, id \in Ids, up \in BOOLEAN, evict \in BOOLEAN :
          CreateMixStatus(p, id, up, evict)
    \/ \E p \in Solo : RefreshMixRead(p)
    \/ \E p \in Solo : RefreshMixStore(p)
    \/ \E p \in Solo : RefreshGatewayRead(p)
    \/ \E p \in Solo : RefreshGatewayStore(p)

SpecReg == InitReg /\ [][NextReg]_vars

----------------------------------------------------------------------------
(* Admission *)

Registered == Live(mixes) \cup Live(gateways)
Removed == removedMixes \cup removedGateways

Conflict(op) == [op |-> op, status |-> 409]
Ok(op) == [op |-> op, status |-> 200]

\* C4: the number of registered mixes never exceeds the ceiling, whatever
\* the interleaving of mix registrations with each other and with the
\* observation and unregistration handlers that write the cached count.
MixCeilingHeld == MixCount(mixes) <= MaximumMixnodes

\* C5: the number of registered gateways never exceeds the ceiling under
\* any interleaving of gateway registrations.
GatewayCeilingHeld == GatewayCount(gateways) <= MaximumGateways

\* goroutine p has taken the step
Acts(p) == pc'[p] # pc[p] \/ resp'[p] # resp[p] \/ call'[p] # call[p]

\* C6: a mix registration is let past the check under the lock only while
\* fewer mixes than the ceiling are registered (at the ceiling it is
\* rejected with Conflict); and a registration request that arrives when the
\* last request served was a successful unregistration, with fewer mixes
\* than the ceiling registered, is not turned away at the door for capacity.
CapacityDecision ==
    [][\A p \in Procs :
         /\ (pc[p] = "m_check3" /\ pc'[p] = "m_upsert")
                => MixCount(mixes) < MaximumMixnodes
         /\ \A q \in Procs \ {p} :
              (/\ pc[p] = "idle" /\ pc[q] = "idle"
               /\ resp[q] = Ok("UnregisterPresence")
               /\ resp[p].op \notin {"RegisterMixPresence", "RegisterGatewayPresence"}
               /\ MixCount(mixes) < MaximumMixnodes)
                => resp'[p] # Conflict("RegisterMixPresence")]_vars

\* C7: no two registered nodes with distinct identities announce the same
\* host, also when their registrations are served concurrently.
HostOf(tbl, i) == SplitHostPort(tbl[i].host).host
HostsDistinct ==
    /\ \A i, j \in Live(mixes) : i # j => HostOf(mixes, i) # HostOf(mixes, j)
    /\ \A i, j \in Live(gateways) :
          i # j => HostOf(gateways, i) # HostOf(gateways, j)
    /\ \A i \in Live(mixes), j \in Live(gateways) :
          i # j => HostOf(mixes, i) # HostOf(gateways, j)

\* C8: once the controller is constructed every registered mix and gateway
\* has the required version.
RegisteredRunRequiredVersion ==
    started =>
        /\ \A i \in Live(mixes) : mixes[i].version = SystemVersion
        /\ \A i \in Live(gateways) : gateways[i].version = SystemVersion

\* the mix "a" of an earlier release was moved to the removed set at
\* start-up, and "b" has registered since
PurgedAndRegisteredSeen ==
    /\ started
    /\ "a" \in removedMixes /\ mixes["a"].deleted /\ mixes["a"].version = "0.9.1"
    /\ "b" \in DOMAIN mixes /\ ~mixes["b"].deleted

\* a step of a registration request that has not passed its last check
ChecksOnly(p) ==
    \/ pc[p] \in {"m_dup", "m_check2", "m_lock", "m_check3", "g_dup"} /\ pc'[p] # pc[p]
    \/ pc[p] = "idle" /\ pc'[p] \in {"m_dup", "g_dup"}
    \/ pc[p] = "idle" /\ resp'[p].status = 409

\* C9: a registration that ends in Conflict has, from its first step to the
\* rejection, changed neither the registered tables (reputations included),
\* nor the removed tables, nor the cached counts.
RejectionChangesNothing ==
    [][\A p \in Procs :
         (Acts(p) /\ ChecksOnly(p)) => UNCHANGED <<dbvars, mixCount, gatewayCount>>]_vars

\* a mix registration has been answered Conflict while the other goroutine
\* is between the two statements of its own registration, under the lock
RejectedBesideWriterSeen ==
    /\ resp["p1"] = Conflict("RegisterMixPresence")
    /\ registrationLock = "p2"
    /\ pc["p2"] = "m_clear"

\* C10: an identity enters the removed set only from the registered set; a
\* removed identity enters the registered set only by the write of a
\* registration for it; and a registration answered 200 leaves its identity
\* registered and in no removed set.
Lifecycle ==
    [][\A id \in Ids :
         /\ (id \notin Removed /\ id \in Removed') => id \in Registered
         /\ (id \in Removed /\ id \notin Registered /\ id \in Registered')
                => \E p \in Procs : /\ pc[p] \in {"m_upsert", "g_upsert"}
                                    /\ call[p].id = id
         /\ \A p \in Procs :
              (pc[p] \in {"m_store", "g_store"} /\ pc'[p] = "idle" /\ call[p].id = id)
                => (id \in Registered' /\ id \notin Removed')]_vars

----------------------------------------------------------------------------
(* Registry *)

\* C11: whenever no registration is between its two statements, no identity
\* is both registered (as a mix or as a gateway) and a member of a removed
\* table (of mixes or of gateways).
RegisteredRemovedDisjoint ==
    (\A p \in Procs : pc[p] \notin {"m_clear", "g_clear"})
        => Registered \cap Removed = {}

\* addresses and versions a registration of the store is called with
StoreAddrs == {Addr17, Addr27}

InitRegistry ==
    /\ mixes = EmptyTable
    /\ gateways = EmptyTable
    /\ removedMixes = {}
    /\ removedGateways = {}
    /\ expected = [i \in Ids |-> 0]
    /\ clock = 0
    /\ Quiet

\* registrations and unregistrations called on the store, one after the other
NextRegistry ==
    \/ \E id \in Ids, addr \in StoreAddrs, ver \in Versions :
          DbRegisterMix(id, addr, ver)
    \/ \E id \in Ids, addr \in StoreAddrs, ver \in Versions :
          DbRegisterGateway(id, addr, ver)
    \/ \E id \in Ids : DbUnregisterNode(id)

SpecRegistry == InitRegistry /\ [][NextRegistry]_vars

\* what a registration of id leaves in the table of its kind
Overwritten(tbl, tblNext, id, addr, ver) ==
    /\ DOMAIN tblNext = DOMAIN tbl \cup {id}
    /\ Live(tblNext) = Live(tbl) \cup {id}
    /\ tblNext[id].host = addr
    /\ tblNext[id].version = ver
    /\ id \in DOMAIN tbl => tblNext[id].regTime > tbl[id].regTime
    /\ \A j \in DOMAIN tbl \ {id} : tblNext[j] = tbl[j]

\* C12: RegisterMix (RegisterGateway) leaves the table of its kind with one
\* entry per identity registered: the entry of the identity registered has
\* the fields of this registration and, when it was there before, a
\* strictly later registration time; the entries of all other identities
\* and the table of the other kind are as they were.
RegistrationOverwrites ==
    [][\A id \in Ids, addr \in StoreAddrs, ver \in Versions :
         /\ DbRegisterMix(id, addr, ver) =>
                Overwritten(mixes, mixes', id, addr, ver) /\ gateways' = gateways
         /\ DbRegisterGateway(id, addr, ver) =>
                Overwritten(gateways, gateways', id, addr, ver) /\ mixes' = mixes]_vars

\* the mix "a" has been registered a second time, with another address,
\* beside the mix "b" that registered first
ReregisteredSeen ==
    /\ lastOp = [op |-> "RegisterMix", id |-> "a"]
    /\ gateways = EmptyTable
    /\ "b" \in Live(mixes) /\ mixes["b"].regTime = 1
    /\ "a" \in Live(mixes) /\ mixes["a"].regTime = 3
    /\ mixes["a"].host = Addr27 /\ mixes["b"].host = Addr27

UnregisterRemoves ==
    [][\A id \in Ids :
         DbUnregisterNode(id) =>
           /\ ret' = (id \in Registered)
           /\ ret' => (id \notin Registered' /\ id \notin Removed')
           /\ ~ret' => UNCHANGED dbvars]_vars

----------------------------------------------------------------------------
(* Observations and the uptime calculation *)

IPVersions == {"4", "6"}
Owner == "o1"

\* cap of the observations stored of one node and IP version in this model
MaxStatuses == 100

\* a MixStatus as a monitor sends it
MixStatus(pubkey, ipVersion, up) ==
    [pubKey |-> pubkey, ipVersion |-> ipVersion, up |-> up, owner |-> Owner]

\* PersistedMixStatus: the status with the time it was seen
Persisted(mixStatus, now) ==
    [pubKey |-> mixStatus.pubKey, ipVersion |-> mixStatus.ipVersion,
     up |-> mixStatus.up, owner |-> mixStatus.owner, timestamp |-> now]

\* number of rows of the bag st among the distinct rows S
RECURSIVE Rows(_, _)
Rows(st, S) ==
    IF S = {} THEN 0
    ELSE LET x == CHOOSE y \in S : TRUE
         IN  CopiesIn(x, st) + Rows(st, S \ {x})

\* Db.ListMixStatusSince: WHERE pub_key = ? AND ip_version = ? AND
\* timestamp >= ?, as the distinct rows that match
ListMixStatusSince(st, pubkey, ipVersion, since) ==
    {x \in BagToSet(st) : /\ x.pubKey = pubkey
                          /\ x.ipVersion = ipVersion
                          /\ x.timestamp >= since}

\* float32 values are a 24 bit significand m, 2^23 <= m < 2^24, and an
\* exponent e: the value is m / 2^e.  Rounding is to nearest, ties to even.
RoundShift(n, d) ==
    LET q == n \div d
        r == n % d
    IN  IF 2 * r > d \/ (2 * r = d /\ q % 2 = 1) THEN q + 1 ELSE q

RECURSIVE Normal(_, _, _)
Normal(a, b, e) == IF a * 2^e >= 2^23 * b THEN e ELSE Normal(a, b, e + 1)

\* float32(num) / float32(outOf) for 0 < num < outOf
F32Div(num, outOf) ==
    LET e == Normal(num, outOf, 24)
        m == RoundShift(num * 2^e, outOf)
    IN  IF m = 2^24 THEN [m |-> 2^23, e |-> e - 1] ELSE [m |-> m, e |-> e]

\* x * 100 in float32
F32Times100(x) ==
    LET p == x.m * 100
        s == IF p >= 2^30 THEN 7 ELSE 6
        m == RoundShift(p, 2^s)
    IN  IF m = 2^24 THEN [m |-> 2^23, e |-> x.e - s - 1]
        ELSE [m |-> m, e |-> x.e - s]

\* int(x): the fraction is cut off
F32ToInt(x) == IF x.e >= 0 THEN x.m \div 2^(x.e) ELSE x.m * 2^(-x.e)

\* Service.calculatePercent: int(float32(num) / float32(outOf) * 100)
calculatePercent(num, outOf) ==
    IF num = 0 THEN 0
    ELSE IF num = outOf THEN 100
    ELSE F32ToInt(F32Times100(F32Div(num, outOf)))

\* the same with no distinguished result for an empty list
CalculateMixUptime_ZeroOnEmpty(st, pubkey, ipVersion, since) ==
    LET found == ListMixStatusSince(st, pubkey, ipVersion, since)
        numStatuses == Rows(st, found)
        up == Rows(st, {x \in found : x.up})
    IN  IF numStatuses = 0 THEN 0 ELSE calculatePercent(up, numStatuses)

\* Service.CalculateMixUptime
CalculateMixUptime(st, pubkey, ipVersion, since) ==
    LET found == ListMixStatusSince(st, pubkey, ipVersion, since)
        numStatuses == Rows(st, found)
        up == Rows(st, {x \in found : x.up})
    IN  IF numStatuses = 0 THEN -1 ELSE calculatePercent(up, numStatuses)

\* Db.BatchAddMixStatus: every status of the list is inserted
RECURSIVE BatchAddMixStatus(_, _)
BatchAddMixStatus(st, statusList) ==
    IF statusList = <<>> THEN st
    ELSE BatchAddMixStatus(st (+) SetToBag({Head(statusList)}), Tail(statusList))

\* Service.BatchCreateMixStatus: the list of persisted statuses
BatchPersisted(batch, now) == [i \in DOMAIN batch |-> Persisted(batch[i], now)]

\* the observations of one node and IP version stay within the model's cap
StatusesWithinCap(st) ==
    \A id \in Ids, v \in IPVersions :
        Rows(st, ListMixStatusSince(st, id, v, 0)) <= MaxStatuses

\* Service.CreateMixStatus; `stored` is whether the insert went through
SvcCreateMixStatus(mixStatus, stored) ==
    /\ Elapse
    /\ statuses' = IF stored
                   THEN statuses (+) SetToBag({Persisted(mixStatus, clock')})
                   ELSE statuses
    /\ StatusesWithinCap(statuses')
    /\ lastOp' = [op |-> "CreateMixStatus", id |-> mixStatus.pubKey]
    /\ UNCHANGED <<dbvars, ret, bgvars, reports, uptime, cache>>

\* Service.BatchCreateMixStatus
SvcBatchCreateMixStatus(batch) ==
    /\ Elapse
    /\ statuses' = BatchAddMixStatus(statuses, BatchPersisted(batch, clock'))
    /\ StatusesWithinCap(statuses')
    /\ lastOp' = [op |-> "BatchCreateMixStatus", id |-> "*"]
    /\ UNCHANGED <<dbvars, ret, bgvars, reports, uptime, cache>>

\* Service.CalculateMixUptime is called
SvcCalculateMixUptime(pubkey, ipVersion, since) ==
    /\ uptime' = CalculateMixUptime(statuses, pubkey, ipVersion, since)
    /\ lastOp' = [op |-> "CalculateMixUptime", id |-> pubkey,
                  ipVersion |-> ipVersion, since |-> since]
    /\ UNCHANGED <<dbvars, ret, bgvars, clock, statuses, reports, cache>>

\* a batch of n statuses that say the same
Repeat(mixStatus, n) == [i \in 1 .. n |-> mixStatus]

\* batches a monitor reports after a round of probes
RoundUp == 53
RoundDown == 47
Rounds(id, v) ==
    {Repeat(MixStatus(id, v, TRUE), RoundUp),
     Repeat(MixStatus(id, v, FALSE), RoundDown)}

InitUptime ==
    /\ mixes = EmptyTable
    /\ gateways = EmptyTable
    /\ removedMixes = {}
    /\ removedGateways = {}
    /\ expected = [i \in Ids |-> 0]
    /\ clock = 0
    /\ Quiet

NextUptime ==
    \/ \E id \in Ids, v \in IPVersions, up \in BOOLEAN, stored \in BOOLEAN :
          SvcCreateMixStatus(MixStatus(id, v, up), stored)
    \/ \E id \in Ids, v \in IPVersions : \E batch \in Rounds(id, v) :
          SvcBatchCreateMixStatus(batch)
    \/ \E id \in Ids, v \in IPVersions, since \in 0 .. MaxClock :
          SvcCalculateMixUptime(id, v, since)

SpecUptime == InitUptime /\ [][NextUptime]_vars

\* what the last call of CalculateMixUptime was to count
Asked == ListMixStatusSince(statuses, lastOp.id, lastOp.ipVersion, lastOp.since)
AskedTotal == Rows(statuses, Asked)
AskedUp == Rows(statuses, {x \in Asked : x.up})

\* C15: when the stored observations of the identity and IP version asked
\* for, with a timestamp >= the lower bound, are `total` > 0 of which `up`
\* are up, CalculateMixUptime returns floor(100 * up / total).
UptimeIsFloor ==
    (lastOp.op = "CalculateMixUptime" /\ AskedTotal > 0)
        => uptime = (100 * AskedUp) \div AskedTotal

\* C16: CalculateMixUptime returns -1 when no stored observation matches,
\* and a value other than -1, within 0 .. 100, when one does.
EmptyIsDistinguished ==
    lastOp.op = "CalculateMixUptime"
        => IF AskedTotal = 0 THEN uptime = -1 ELSE uptime \in 0 .. 100

\* the uptime of "a" on IPv4 was asked for a window that holds none of its
\* observations, while an older one and observations of "b" are stored
EmptyWindowSeen ==
    /\ lastOp.op = "CalculateMixUptime" /\ lastOp.id = "a"
    /\ lastOp.ipVersion = "4" /\ lastOp.since = 3
    /\ uptime = -1
    /\ Rows(statuses, ListMixStatusSince(statuses, "a", "4", 0)) = 1
    /\ Rows(statuses, ListMixStatusSince(statuses, "b", "4", 3)) = 1

----------------------------------------------------------------------------
(* Status reports *)

\* the windows of a report, 5 minutes, 60 minutes and 24 hours in the
\* service, scaled to the ticks of this model's clock
FiveMinutes == 1
Hour == 2
Day == 3

\* minutesAgo, and the dayAgo of the daily job
Ago(now, window) == now - window

\* models.MixStatusReport{}
ZeroReport ==
    [pubKey |-> "", owner |-> "",
     mostRecentIPV4 |-> FALSE, last5MinutesIPV4 |-> 0, lastHourIPV4 |-> 0,
     lastDayIPV4 |-> 0,
     mostRecentIPV6 |-> FALSE, last5MinutesIPV6 |-> 0, lastHourIPV6 |-> 0,
     lastDayIPV6 |-> 0]

\* Db.LoadMixReport: the report, or an empty one when there is none
LoadMixReport(rp, pubkey) == IF pubkey \in DOMAIN rp THEN rp[pubkey] ELSE ZeroReport

\* the same as an insert that leaves a row of the key as it is
DbSaveMixStatusReport_InsertOnly(rp, report) ==
    [i \in DOMAIN rp \cup {report.pubKey} |->
        IF i \in DOMAIN rp THEN rp[i] ELSE report]

\* Db.SaveMixStatusReport: Save on the primary key pub_key
DbSaveMixStatusReport(rp, report) ==
    [i \in DOMAIN rp \cup {report.pubKey} |->
        IF i = report.pubKey THEN report ELSE rp[i]]

\* the same with the day's window recomputed as well
updateMixReportUpToLastHour_AndDay(st, report, status, now) ==
    LET r == [report EXCEPT !.pubKey = status.pubKey, !.owner = status.owner]
    IN  IF status.ipVersion = "4"
        THEN [r EXCEPT
                !.mostRecentIPV4 = status.up,
                !.last5MinutesIPV4 =
                    CalculateMixUptime(st, status.pubKey, "4", Ago(now, FiveMinutes)),
                !.lastHourIPV4 =
                    CalculateMixUptime(st, status.pubKey, "4", Ago(now, Hour)),
                !.lastDayIPV4 =
                    CalculateMixUptime(st, status.pubKey, "4", Ago(now, Day))]
        ELSE IF status.ipVersion = "6"
        THEN [r EXCEPT
                !.mostRecentIPV6 = status.up,
                !.last5MinutesIPV6 =
                    CalculateMixUptime(st, status.pubKey, "6", Ago(now, FiveMinutes)),
                !.lastHourIPV6 =
                    CalculateMixUptime(st, status.pubKey, "6", Ago(now, Hour)),
                !.lastDayIPV6 =
                    CalculateMixUptime(st, status.pubKey, "6", Ago(now, Day))]
        ELSE r

\* Service.updateMixReportUpToLastHour
updateMixReportUpToLastHour(st, report, status, now) ==
    LET r == [report EXCEPT !.pubKey = status.pubKey, !.owner = status.owner]
    IN  IF status.ipVersion = "4"
        THEN [r EXCEPT
                !.mostRecentIPV4 = status.up,
                !.last5MinutesIPV4 =
                    CalculateMixUptime(st, status.pubKey, "4", Ago(now, FiveMinutes)),
                !.lastHourIPV4 =
                    CalculateMixUptime(st, status.pubKey, "4", Ago(now, Hour))]
        ELSE IF status.ipVersion = "6"
        THEN [r EXCEPT
                !.mostRecentIPV6 = status.up,
                !.last5MinutesIPV6 =
                    CalculateMixUptime(st, status.pubKey, "6", Ago(now, FiveMinutes)),
                !.lastHourIPV6 =
                    CalculateMixUptime(st, status.pubKey, "6", Ago(now, Hour))]
        ELSE r

\* Service.SaveMixStatusReport: the table it leaves
SaveMixStatusReport(st, rp, status, now) ==
    DbSaveMixStatusReport(
        rp, updateMixReportUpToLastHour(st, LoadMixReport(rp, status.pubKey),
                                        status, now))

\* Db.BatchLoadMixReports: the reports there are for the keys, in the order
\* the store returns them
BatchLoadMixReports(rp, order) == [i \in DOMAIN order |-> rp[order[i]]]

\* the map from pub_key to the index of its report in the batch
ReportMap(batchReport) ==
    [k \in {batchReport[i].pubKey : i \in DOMAIN batchReport} |->
        CHOOSE i \in DOMAIN batchReport :
            /\ batchReport[i].pubKey = k
            /\ \A j \in DOMAIN batchReport : batchReport[j].pubKey = k => j <= i]

\* Service.SaveBatchMixStatusReport, the loop over the statuses: the report
\* of the status is updated in place, or a fresh one is appended and
\* entered in the map
RECURSIVE ApplyBatch(_, _, _, _, _)
ApplyBatch(st, batchReport, reportMap, status, now) ==
    IF status = <<>> THEN batchReport
    ELSE LET mixStatus == Head(status)
         IN  IF mixStatus.pubKey \in DOMAIN reportMap
             THEN ApplyBatch(
                      st,
                      [batchReport EXCEPT ![reportMap[mixStatus.pubKey]] =
                          updateMixReportUpToLastHour(st, @, mixStatus, now)],
                      reportMap, Tail(status), now)
             ELSE LET freshReport ==
                          updateMixReportUpToLastHour(st, ZeroReport, mixStatus, now)
                      appended == Append(batchReport, freshReport)
                  IN  ApplyBatch(st, appended,
                                 reportMap @@ (freshReport.pubKey :> Len(appended)),
                                 Tail(status), now)

\* Db.SaveBatchMixStatusReport: Save of every report of the batch
RECURSIVE DbSaveBatchMixStatusReport(_, _)
DbSaveBatchMixStatusReport(rp, batchReport) ==
    IF batchReport = <<>> THEN rp
    ELSE DbSaveBatchMixStatusReport(DbSaveMixStatusReport(rp, Head(batchReport)),
                                    Tail(batchReport))

\* the same with the statuses applied from the last to the first
SaveBatchMixStatusReport_Backwards(st, rp, status, order, now) ==
    LET batchReport == BatchLoadMixReports(rp, order)
    IN  ApplyBatch(st, batchReport, ReportMap(batchReport),
                   [i \in DOMAIN status |-> status[Len(status) + 1 - i]], now)

\* the same without the map of the reports that were loaded
SaveBatchMixStatusReport_NoMap(st, rp, status, order, now) ==
    ApplyBatch(st, BatchLoadMixReports(rp, order), <<>>, status, now)

\* Service.SaveBatchMixStatusReport: the batch it returns
SaveBatchMixStatusReport(st, rp, status, order, now) ==
    LET batchReport == BatchLoadMixReports(rp, order)
    IN  ApplyBatch(st, batchReport, ReportMap(batchReport), status, now)

\* Db.GetActiveMixes: the keys with an observation later than `since`
GetActiveMixes(st, since) == {x.pubKey : x \in {y \in BagToSet(st) : y.timestamp > since}}

\* Service.updateLastDayMixReports, the body of the loop
LastDayOf(st, report, dayAgo) ==
    LET lastDayUptime == CalculateMixUptime(st, report.pubKey, "4", dayAgo)
    IN  IF lastDayUptime = -1 THEN report
        ELSE [report EXCEPT
                !.lastDayIPV4 = lastDayUptime,
                !.lastDayIPV6 = CalculateMixUptime(st, report.pubKey, "6", dayAgo)]

\* Service.updateLastDayMixReports: the table it leaves
updateLastDayMixReports(st, rp, now) ==
    LET dayAgo == Ago(now, Day)
        allActive == GetActiveMixes(st, dayAgo) \cap DOMAIN rp
    IN  [i \in DOMAIN rp |->
            IF i \in allActive THEN LastDayOf(st, rp[i], dayAgo) ELSE rp[i]]

\* the keys of a list of statuses
PubKeys(status) == {status[i].pubKey : i \in DOMAIN status}

\* a monitor posts one status: Service.CreateMixStatus, then
\* Service.SaveMixStatusReport with what it returned; `stored` is whether
\* the insert of the status went through
ReportMixStatus(mixStatus, stored) ==
    /\ Elapse
    /\ statuses' = IF stored
                   THEN statuses (+) SetToBag({Persisted(mixStatus, clock')})
                   ELSE statuses
    /\ reports' = SaveMixStatusReport(statuses', reports,
                                      Persisted(mixStatus, clock'), clock')
    /\ lastOp' = [op |-> "SaveMixStatusReport", id |-> mixStatus.pubKey,
                  ipVersion |-> mixStatus.ipVersion]
    /\ UNCHANGED <<dbvars, ret, bgvars, uptime, cache>>

\* a monitor posts a batch: Service.BatchCreateMixStatus, then
\* Service.SaveBatchMixStatusReport with what it returned
ReportBatchMixStatus(batch, stored, order) ==
    /\ Elapse
    /\ statuses' = IF stored
                   THEN BatchAddMixStatus(statuses, BatchPersisted(batch, clock'))
                   ELSE statuses
    /\ LET batchReport ==
               SaveBatchMixStatusReport(statuses', reports,
                                        BatchPersisted(batch, clock'), order, clock')
       IN  /\ reports' = DbSaveBatchMixStatusReport(reports, batchReport)
           /\ ret' = batchReport
    /\ lastOp' = [op |-> "SaveBatchMixStatusReport", id |-> "*", batch |-> batch]
    /\ UNCHANGED <<dbvars, bgvars, uptime, cache>>

\* the daily job runs Service.updateLastDayMixReports
RefreshLastDay ==
    /\ reports' = updateLastDayMixReports(statuses, reports, clock)
    /\ lastOp' = [op |-> "updateLastDayMixReports", id |-> "*"]
    /\ UNCHANGED <<dbvars, ret, bgvars, clock, statuses, uptime, cache>>

\* time passes
Tick ==
    /\ Elapse
    /\ UNCHANGED <<dbvars, seqvars, bgvars, repvars>>

\* the statuses a monitor may post
Posted == {MixStatus(id, v, up) : id \in Ids, v \in IPVersions, up \in BOOLEAN}

\* the batches it may post
PostedBatches == {<<x, y>> : x \in Posted, y \in Posted}

\* what an earlier run of the service may have left: nothing, or one
\* observation at tick 0 and the report SaveMixStatusReport made of it
Earlier == Persisted(MixStatus("a", "4", TRUE), 0)

InitReport ==
    /\ mixes = EmptyTable
    /\ gateways = EmptyTable
    /\ removedMixes = {}
    /\ removedGateways = {}
    /\ expected = [i \in Ids |-> 0]
    /\ clock = 1
    /\ Idle
    /\ uptime = 0
    /\ cache = NoCache
    /\ \/ /\ statuses = EmptyBag
          /\ reports = EmptyTable
       \/ /\ statuses = SetToBag({Earlier})
          /\ reports = SaveMixStatusReport(SetToBag({Earlier}), EmptyTable, Earlier, 0)

NextReport ==
    \/ \E mixStatus \in Posted, stored \in BOOLEAN :
          ReportMixStatus(mixStatus, stored)
    \/ \E batch \in PostedBatches, stored \in BOOLEAN :
          \E order \in Orders(PubKeys(batch) \cap DOMAIN reports) :
             ReportBatchMixStatus(batch, stored, order)
    \/ RefreshLastDay
    \/ Tick

SpecReport == InitReport /\ [][NextReport]_vars

\* the percentages of a report
Percentages(report) ==
    {report.last5MinutesIPV4, report.lastHourIPV4, report.lastDayIPV4,
     report.last5MinutesIPV6, report.lastHourIPV6, report.lastDayIPV6}

\* C17: every percentage of every stored status report is within 0 .. 100,
\* whatever single observations, batches, daily refreshes and failed
\* inserts came before, and whichever IP versions the node was observed on.
PercentagesInRange ==
    \A id \in DOMAIN reports : Percentages(reports[id]) \subseteq 0 .. 100

\* C18: SaveMixStatusReport for an observation of IP version v changes, in
\* the report of its identity only, the identity and owner and the
\* mostRecent, last5Minutes and lastHour of v; the three fields of the
\* other version and both lastDay fields stay, and so does every other
\* report.
SingleReportFrame ==
    [][\A mixStatus \in Posted, stored \in BOOLEAN :
          ReportMixStatus(mixStatus, stored) =>
             LET id == mixStatus.pubKey
                 old == LoadMixReport(reports, id)
                 new == reports'[id]
             IN  /\ DOMAIN reports' = DOMAIN reports \cup {id}
                 /\ \A j \in DOMAIN reports \ {id} : reports'[j] = reports[j]
                 /\ new.pubKey = id
                 /\ new.owner = Owner
                 /\ new.lastDayIPV4 = old.lastDayIPV4
                 /\ new.lastDayIPV6 = old.lastDayIPV6
                 /\ mixStatus.ipVersion = "4" =>
                        /\ new.mostRecentIPV4 = mixStatus.up
                        /\ new.mostRecentIPV6 = old.mostRecentIPV6
                        /\ new.last5MinutesIPV6 = old.last5MinutesIPV6
                        /\ new.lastHourIPV6 = old.lastHourIPV6
                 /\ mixStatus.ipVersion = "6" =>
                        /\ new.mostRecentIPV6 = mixStatus.up
                        /\ new.mostRecentIPV4 = old.mostRecentIPV4
                        /\ new.last5MinutesIPV4 = old.last5MinutesIPV4
                        /\ new.lastHourIPV4 = old.lastHourIPV4]_vars

\* an IPv6 observation of a node went into a report whose IPv4 fields and
\* day had been filled before
OtherVersionKept ==
    /\ lastOp = [op |-> "SaveMixStatusReport", id |-> "a", ipVersion |-> "6"]
    /\ "a" \in DOMAIN reports
    /\ reports["a"].lastDayIPV4 = 100
    /\ reports["a"].last5MinutesIPV4 = 100
    /\ reports["a"].mostRecentIPV4
    /\ ~reports["a"].mostRecentIPV6
    /\ reports["a"].last5MinutesIPV6 = 0
    /\ CalculateMixUptime(statuses, "a", "4", Ago(clock, FiveMinutes)) = -1

\* the positions of a batch that observe what position i observes
SameNode(batch, i) ==
    {j \in DOMAIN batch : /\ batch[j].pubKey = batch[i].pubKey
                          /\ batch[j].ipVersion = batch[i].ipVersion}

\* the mostRecent of a report for an IP version
MostRecent(report, ipVersion) ==
    IF ipVersion = "4" THEN report.mostRecentIPV4 ELSE report.mostRecentIPV6

\* the highest of a set of positions
Last(S) == CHOOSE i \in S : \A j \in S : j <= i

\* C19: after SaveBatchMixStatusReport, the mostRecent of an identity and
\* IP version that the batch observes is what the last observation of that
\* identity and version in the batch, in its order, says.
BatchLastWins ==
    lastOp.op = "SaveBatchMixStatusReport" =>
        \A i \in DOMAIN lastOp.batch :
            /\ lastOp.batch[i].pubKey \in DOMAIN reports
            /\ MostRecent(reports[lastOp.batch[i].pubKey], lastOp.batch[i].ipVersion)
                  = lastOp.batch[Last(SameNode(lastOp.batch, i))].up

\* a batch said up and then down of the same node and version
UpThenDownSeen ==
    /\ lastOp.op = "SaveBatchMixStatusReport"
    /\ lastOp.batch = <<MixStatus("a", "4", TRUE), MixStatus("a", "4", FALSE)>>
    /\ ~reports["a"].mostRecentIPV4
    /\ reports["a"].last5MinutesIPV4 = 50

\* C20: SaveBatchMixStatusReport returns and saves exactly one report for
\* each identity of the batch: no identity of the batch is without one, no
\* two of the returned reports have the same identity, and what is stored
\* for the identity is the returned report.
BatchOnePerIdentity ==
    lastOp.op = "SaveBatchMixStatusReport" =>
        /\ {ret[i].pubKey : i \in DOMAIN ret} = PubKeys(lastOp.batch)
        /\ Len(ret) = Cardinality(PubKeys(lastOp.batch))
        /\ \A i \in DOMAIN ret :
              /\ ret[i].pubKey \in DOMAIN reports
              /\ reports[ret[i].pubKey] = ret[i]

\* a batch with an IPv4 and an IPv6 observation of a node without a report
\* made one report of the two, next to the report of another node
MergedFreshSeen ==
    /\ lastOp.op = "SaveBatchMixStatusReport"
    /\ lastOp.batch = <<MixStatus("a", "4", TRUE), MixStatus("a", "6", FALSE)>>
    /\ Len(ret) = 1
    /\ reports["a"].mostRecentIPV4
    /\ reports["a"].last5MinutesIPV4 = 100
    /\ ~reports["a"].mostRecentIPV6
    /\ reports["a"].last5MinutesIPV6 = 0
    /\ reports["a"].lastDayIPV4 = 0
    /\ "b" \in DOMAIN reports

----------------------------------------------------------------------------
(* The daily job and the retention of observations *)

\* the lastDay of a report for an IP version
LastDay(report, ipVersion) ==
    IF ipVersion = "4" THEN report.lastDayIPV4 ELSE report.lastDayIPV6

\* C21: when updateLastDayMixReports has run, every node with an
\* observation of an IP version in the last 24 hours has a stored report
\* whose lastDay of that version is floor(100 * up / total) over those
\* observations, whichever versions the node was observed on.
LastDayRefreshed ==
    [][RefreshLastDay =>
          \A id \in Ids, v \in IPVersions :
             LET inDay == ListMixStatusSince(statuses, id, v, Ago(clock, Day))
                 total == Rows(statuses, inDay)
                 up == Rows(statuses, {x \in inDay : x.up})
             IN  total > 0 =>
                    /\ id \in DOMAIN reports'
                    /\ LastDay(reports'[id], v) = (100 * up) \div total]_vars

\* the retention of observations, 7 days in the service, in ticks
Week == 4

\* how long the model lets the clock run on while nothing is posted
MaxWait == 6

\* the same with the observations of the horizon itself deleted as well
RemoveOldMixStatuses_Inclusive(st, before) ==
    LET kept == {x \in BagToSet(st) : ~(x.timestamp <= before)}
    IN  [x \in kept |-> st[x]]

\* Db.RemoveOldMixStatuses: the rows with timestamp < before are deleted
RemoveOldMixStatuses(st, before) ==
    LET kept == {x \in BagToSet(st) : ~(x.timestamp < before)}
    IN  [x \in kept |-> st[x]]

\* Db.LoadNonStaleMixReports: the reports with a lastDay above 0
LoadNonStaleMixReports(rp) ==
    {rp[i] : i \in {j \in DOMAIN rp : rp[j].lastDayIPV4 > 0 \/ rp[j].lastDayIPV6 > 0}}

\* oldStatusesPurger, one round
Purge ==
    /\ statuses' = RemoveOldMixStatuses(statuses, Ago(clock, Week))
    /\ lastOp' = [op |-> "RemoveOldMixStatuses", id |-> "*",
                  removed |-> BagCardinality(statuses) - BagCardinality(statuses')]
    /\ UNCHANGED <<dbvars, ret, bgvars, clock, reports, uptime, cache>>

\* Service.BatchGetMixStatusReport
GetNonStale ==
    /\ ret' = LoadNonStaleMixReports(reports)
    /\ lastOp' = [op |-> "LoadNonStaleMixReports", id |-> "*"]
    /\ UNCHANGED <<dbvars, bgvars, clock, repvars>>

\* time passes and nothing is posted
Wait ==
    /\ clock < MaxWait
    /\ clock' = clock + 1
    /\ lastOp' = [op |-> "none", id |-> "*"]
    /\ UNCHANGED <<dbvars, ret, bgvars, repvars>>

NextRetention ==
    \/ \E mixStatus \in Posted, stored \in BOOLEAN :
          ReportMixStatus(mixStatus, stored)
    \/ RefreshLastDay
    \/ Purge
    \/ GetNonStale
    \/ Wait

SpecRetention == InitReport /\ [][NextRetention]_vars

\* C22: a retention purge at time t deletes the observations with a
\* timestamp earlier than t minus 7 days, every copy of them, keeps every
\* observation at or after that horizon, and leaves the reports as they
\* were.
PurgeExact ==
    [][Purge =>
          /\ BagToSet(statuses') \subseteq BagToSet(statuses)
          /\ \A x \in BagToSet(statuses) :
                CopiesIn(x, statuses') =
                    IF x.timestamp < clock - Week THEN 0 ELSE CopiesIn(x, statuses)
          /\ reports' = reports]_vars

\* a purge deleted an observation and kept one of the horizon itself, next
\* to a report
PurgedAtHorizonSeen ==
    /\ lastOp.op = "RemoveOldMixStatuses"
    /\ lastOp.removed > 0
    /\ \E x \in BagToSet(statuses) : x.timestamp = clock - Week
    /\ reports # EmptyTable

\* C28: every report LoadNonStaleMixReports returns is of a node with an
\* observation that says up within the last day; stated for the calls made
\* when the daily job has nothing left to refresh.
NonStaleWereUp ==
    (/\ lastOp.op = "LoadNonStaleMixReports"
     /\ reports = updateLastDayMixReports(statuses, reports, clock)) =>
        \A report \in ret :
           \E x \in BagToSet(statuses) :
              /\ x.pubKey = report.pubKey
              /\ x.up
              /\ x.timestamp >= clock - Day

----------------------------------------------------------------------------
(* Eviction *)

\* the same with IPv6 counted against a node that never used it
shouldEvict_IPV6Always(report) ==
    \/ report.lastDayIPV4 < 50
    \/ report.lastDayIPV6 < 50

\* the eviction policy
shouldEvict(report) ==
    \/ report.lastDayIPV4 < 50
    \/ report.lastDayIPV6 > 0 /\ report.lastDayIPV6 < 50

\* a monitor posts one status to the service that keeps reputations: the
\* status is stored, the report of the node saved, and the registry
\* brought up to date with SaveStatusReport
ObserveMix(mixStatus) ==
    /\ Elapse
    /\ mixStatus.up => /\ WithinCap(mixes, mixStatus.pubKey, ReportSuccessReputationIncrease)
                       /\ WithinCap(gateways, mixStatus.pubKey, ReportSuccessReputationIncrease)
    /\ statuses' = statuses (+) SetToBag({Persisted(mixStatus, clock')})
    /\ reports' = SaveMixStatusReport(statuses', reports,
                                      Persisted(mixStatus, clock'), clock')
    /\ SetStore(SaveStatusReport(Store, mixStatus.pubKey, mixStatus.up,
                                 shouldEvict(reports'[mixStatus.pubKey])))
    /\ lastOp' = [op |-> "SaveStatusReport", id |-> mixStatus.pubKey,
                  up |-> mixStatus.up]
    /\ UNCHANGED <<ret, bgvars, uptime, cache>>

\* the daily job: the lastDay of the active nodes is recomputed and the
\* nodes of the batch that the policy evicts are moved to the removed set
SweepLastDay ==
    /\ reports' = updateLastDayMixReports(statuses, reports, clock)
    /\ SetStore(BatchMoveToRemovedSet(
                    Store,
                    {id \in GetActiveMixes(statuses, Ago(clock, Day)) \cap DOMAIN reports :
                        shouldEvict(reports'[id])}))
    /\ lastOp' = [op |-> "updateLastDayReports", id |-> "*"]
    /\ UNCHANGED <<ret, bgvars, clock, statuses, uptime, cache>>

InitEvict ==
    /\ mixes = [i \in {"a"} |-> NewRow(Addr17, 1)]
    /\ gateways = [i \in {"b"} |-> NewGatewayRow(Addr27, 1)]
    /\ removedMixes = {}
    /\ removedGateways = {}
    /\ expected = [i \in Ids |-> 0]
    /\ clock = 0
    /\ Quiet

NextEvict ==
    \/ \E mixStatus \in Posted : ObserveMix(mixStatus)
    \/ SweepLastDay

SpecEvict == InitEvict /\ [][NextEvict]_vars

----------------------------------------------------------------------------
(* Reputation overrides and the topology views *)

\* C26: SetReputation(id, value) gives the registered node id, the mix when
\* there is one and else the gateway, the reputation value, whatever the
\* value and the reputation it had, changes nothing else and returns true;
\* for an identity that is not registered it returns false and changes
\* nothing.
SetReputationExact ==
    [][\A id \in Ids, v \in SetVals :
          DbSetReputation(id, v) =>
             /\ ret' = (id \in Registered)
             /\ mixes' = IF id \in Live(mixes)
                         THEN [mixes EXCEPT ![id].rep = v] ELSE mixes
             /\ gateways' = IF id \notin Live(mixes) /\ id \in Live(gateways)
                            THEN [gateways EXCEPT ![id].rep = v] ELSE gateways
             /\ removedMixes' = removedMixes
             /\ removedGateways' = removedGateways]_vars

\* the mix a was set below zero, next to a gateway b that kept what it had
SetBelowZeroSeen ==
    /\ lastOp = [op |-> "SetReputation", id |-> "a"]
    /\ ret = TRUE
    /\ "a" \in Live(mixes) /\ mixes["a"].rep = -1
    /\ "b" \in Live(gateways) /\ gateways["b"].rep = MaxRep

\* C30: UpdateReputation(id, delta) returns true exactly when it changed
\* the reputation of one stored row, that of a registered node id, by
\* delta; when it returns false nothing has changed; it never changes two
\* rows, also when id is a registered mix and a registered gateway.
UpdateChangesOne ==
    [][\A id \in Ids, d \in Deltas :
          DbUpdateReputation(id, d) =>
             LET changedMixes == {i \in DOMAIN mixes : mixes'[i] # mixes[i]}
                 changedGateways == {i \in DOMAIN gateways : gateways'[i] # gateways[i]}
             IN  /\ DOMAIN mixes' = DOMAIN mixes
                 /\ DOMAIN gateways' = DOMAIN gateways
                 /\ changedMixes \subseteq {id} \cap Live(mixes)
                 /\ changedGateways \subseteq {id} \cap Live(gateways)
                 /\ Cardinality(changedMixes) + Cardinality(changedGateways)
                       = IF ret' THEN 1 ELSE 0
                 /\ \A i \in changedMixes :
                       mixes'[i] = [mixes[i] EXCEPT !.rep = @ + d]
                 /\ \A i \in changedGateways :
                       gateways'[i] = [gateways[i] EXCEPT !.rep = @ + d]]_vars

\* an update for an identity that is a mix and a gateway changed the mix
OneOfTwoUpdatedSeen ==
    /\ lastOp = [op |-> "UpdateReputation", id |-> "a"]
    /\ ret = TRUE
    /\ "a" \in Live(mixes) /\ mixes["a"].rep = 1
    /\ "a" \in Live(gateways) /\ gateways["a"].rep = 0

\* the same with the rows above the threshold only
activeRegistered_Above(tbl, reputationThreshold) ==
    {<<i, tbl[i]>> : i \in {j \in Live(tbl) : tbl[j].rep > reputationThreshold}}

\* Db.allRegisteredMixes, Db.allRegisteredGateways: the rows Find returns
allRegistered(tbl) == {<<i, tbl[i]>> : i \in Live(tbl)}

\* Db.activeRegisteredMixes, Db.activeRegisteredGateways
activeRegistered(tbl, reputationThreshold) ==
    {<<i, tbl[i]>> : i \in {j \in Live(tbl) : tbl[j].rep >= reputationThreshold}}

\* Db.Topology
Topology(m, g) == [mixNodes |-> allRegistered(m), gateways |-> allRegistered(g)]

\* Db.ActiveTopology
ActiveTopology(m, g, reputationThreshold) ==
    [mixNodes |-> activeRegistered(m, reputationThreshold),
     gateways |-> activeRegistered(g, reputationThreshold)]

\* the nodes of a list of rows
Keys(nodes) == {x[1] : x \in nodes}

\* C27: ActiveTopology(threshold) is the registered mixes and gateways
\* with reputation >= threshold, as they are stored, and so a part of
\* Topology(); a node with threshold - 1 is not in it, a node with
\* threshold is, and an unregistered node is in neither view.
ActiveIsQualified ==
    \A threshold \in 0 .. MaxRep :
        LET active == ActiveTopology(mixes, gateways, threshold)
            all == Topology(mixes, gateways)
        IN  /\ active.mixNodes \subseteq all.mixNodes
            /\ active.gateways \subseteq all.gateways
            /\ \A x \in all.mixNodes : x[2] = mixes[x[1]] /\ ~x[2].deleted
            /\ \A x \in all.gateways : x[2] = gateways[x[1]] /\ ~x[2].deleted
            /\ Keys(all.mixNodes) \cup Keys(all.gateways) = Registered
            /\ Keys(active.mixNodes) =
                  {i \in DOMAIN mixes : ~mixes[i].deleted /\ ~(mixes[i].rep < threshold)}
            /\ Keys(active.gateways) =
                  {i \in DOMAIN gateways :
                      ~gateways[i].deleted /\ ~(gateways[i].rep < threshold)}

\* at threshold 1 the view is the mix a, which has 1: the gateway b has 0
\* and the mix b, which had 2, is unregistered
ActiveBoundarySeen ==
    /\ "a" \in Live(mixes) /\ mixes["a"].rep = 1
    /\ "b" \in Live(gateways) /\ gateways["b"].rep = 0
    /\ "b" \in DOMAIN mixes /\ mixes["b"].deleted /\ mixes["b"].rep = 2
    /\ ActiveTopology(mixes, gateways, 1) =
          [mixNodes |-> {<<"a", mixes["a"]>>}, gateways |-> {}]
    /\ Keys(Topology(mixes, gateways).gateways) = {"b"} \cup (Live(gateways) \ {"b"})

----------------------------------------------------------------------------
(* The table of reports *)

\* C29: whatever SaveMixStatusReport and SaveBatchMixStatusReport calls
\* there were, no identity has two stored reports, and LoadMixReport(key)
\* is the report last saved for the key: the one the single save built, or
\* the one of the key in the batch the batch save returned; the reports of
\* the other keys are as they were.
SaveLoadRoundTrip ==
    /\ [](\A id \in Ids :
            /\ Cardinality({k \in DOMAIN reports : reports[k].pubKey = id}) <= 1
            /\ id \in DOMAIN reports => LoadMixReport(reports, id).pubKey = id)
    /\ [][\A mixStatus \in Posted, stored \in BOOLEAN :
             ReportMixStatus(mixStatus, stored) =>
                /\ LoadMixReport(reports', mixStatus.pubKey) =
                      updateMixReportUpToLastHour(
                          statuses', LoadMixReport(reports, mixStatus.pubKey),
                          Persisted(mixStatus, clock'), clock')
                /\ \A k \in Ids \ {mixStatus.pubKey} :
                      LoadMixReport(reports', k) = LoadMixReport(reports, k)]_vars
    /\ [][lastOp'.op = "SaveBatchMixStatusReport" /\ clock' # clock =>
             /\ \A i \in DOMAIN ret' :
                   LoadMixReport(reports', ret'[i].pubKey) = ret'[i]
             /\ \A k \in Ids \ PubKeys(lastOp'.batch) :
                   LoadMixReport(reports', k) = LoadMixReport(reports, k)]_vars

\* a second save for node a took the place of the first
SavedOverSeen ==
    /\ lastOp = [op |-> "SaveMixStatusReport", id |-> "a", ipVersion |-> "4"]
    /\ Cardinality(DOMAIN reports) = 2
    /\ ~LoadMixReport(reports, "a").mostRecentIPV4
    /\ LoadMixReport(reports, "a").last5MinutesIPV4 = 50
    /\ LoadMixReport(reports, "a").lastHourIPV4 = 50

----------------------------------------------------------------------------
(* The topology cache *)

\* the reputation a node needs to be in the active topology (scaled)
ReputationThreshold == 1

\* the age up to which a snapshot is served as it is (30 s, scaled)
TopologyCacheTTL == 1

\* no call is issued once this many rebuilds were tried
MaxRebuilds == 2

\* Db.RemovedTopology
RemovedTopology(rm, rg) == [mixNodes |-> rm, gateways |-> rg]

\* what the refresher of a view reads from the store
Rebuilt(view, db) ==
    CASE view = "full" -> Topology(db.mixes, db.gateways)
      [] view = "active" ->
            ActiveTopology(db.mixes, db.gateways, ReputationThreshold)
      [] view = "removed" ->
            RemovedTopology(db.removedMixes, db.removedGateways)

\* NewService primes the three views
Primed(db, now) ==
    [view |-> [v \in Views |-> [snapshot |-> Rebuilt(v, db),
                                lastRefreshedAt |-> now,
                                refreshing |-> FALSE]],
     rebuilds |-> [v \in Views |-> 0],
     failures |-> [v \in Views |-> 0]]

\* the rebuilds tried so far
Attempts ==
    LET n(v) == cache.rebuilds[v] + cache.failures[v]
    IN  n("full") + n("active") + n("removed")

\* the view a caller asked for
ViewOf(p) == call[p].id

\* Get returns a snapshot to its caller
Return(p, snapshot) ==
    /\ Finish(p, "Get", 200)
    /\ lastOp' = [op |-> "Get", id |-> ViewOf(p), snapshot |-> snapshot]
    /\ UNCHANGED ret

\* a caller enters Get(view)
GetIssue(p, view) ==
    /\ pc[p] = "idle"
    /\ Attempts < MaxRebuilds
    /\ Goto(p, "get_check")
    /\ call' = [call EXCEPT ![p] = [NoCall EXCEPT !.op = "Get", !.id = view]]
    /\ UNCHANGED <<dbvars, seqvars, expected, ctlvars, clock, repvars>>

\* the fast path: a snapshot no older than the TTL is returned as it is
GetCheck(p) ==
    /\ pc[p] = "get_check"
    /\ IF clock - cache.view[ViewOf(p)].lastRefreshedAt <= TopologyCacheTTL
       THEN Return(p, cache.view[ViewOf(p)].snapshot)
       ELSE /\ Goto(p, "get_cas")
            /\ UNCHANGED <<seqvars, call, resp>>
    /\ UNCHANGED <<dbvars, expected, mixCount, gatewayCount,
                   registrationLock, started, clock, repvars>>

\* compare-and-swap on the refreshing flag, idle -> refreshing: the winner
\* goes on to rebuild, every other caller returns the stale snapshot
GetCas(p) ==
    /\ pc[p] = "get_cas"
    /\ IF ~cache.view[ViewOf(p)].refreshing
       THEN /\ cache' = [cache EXCEPT !.view[ViewOf(p)].refreshing = TRUE]
            /\ Goto(p, "get_rebuild")
            /\ UNCHANGED <<seqvars, call, resp>>
       ELSE /\ Return(p, cache.view[ViewOf(p)].snapshot)
            /\ UNCHANGED cache
    /\ UNCHANGED <<dbvars, expected, mixCount, gatewayCount,
                   registrationLock, started, clock, statuses, reports,
                   uptime>>

\* the refresher leaves the rebuild without clearing the flag when the
\* rebuild fails
GetRebuild_StuckOnFailure(p, ok) ==
    /\ pc[p] = "get_rebuild"
    /\ IF ok
       THEN /\ cache' = [cache EXCEPT
                  !.view[ViewOf(p)].snapshot = Rebuilt(ViewOf(p), Store),
                  !.view[ViewOf(p)].lastRefreshedAt = clock,
                  !.rebuilds[ViewOf(p)] = @ + 1]
            /\ Goto(p, "get_clear")
            /\ UNCHANGED <<seqvars, call, resp>>
       ELSE /\ cache' = [cache EXCEPT !.failures[ViewOf(p)] = @ + 1]
            /\ Return(p, cache.view[ViewOf(p)].snapshot)
    /\ UNCHANGED <<dbvars, expected, mixCount, gatewayCount,
                   registrationLock, started, clock, statuses, reports,
                   uptime>>

\* the refresher rebuilds the snapshot from the store and stamps it; a
\* rebuild that fails leaves the snapshot as it was
GetRebuild(p, ok) ==
    /\ pc[p] = "get_rebuild"
    /\ IF ok
       THEN cache' = [cache EXCEPT
                !.view[ViewOf(p)].snapshot = Rebuilt(ViewOf(p), Store),
                !.view[ViewOf(p)].lastRefreshedAt = clock,
                !.rebuilds[ViewOf(p)] = @ + 1]
       ELSE cache' = [cache EXCEPT !.failures[ViewOf(p)] = @ + 1]
    /\ Goto(p, "get_clear")
    /\ UNCHANGED <<dbvars, seqvars, call, expected, ctlvars, clock, statuses,
                   reports, uptime>>

\* the refresher clears the flag, whatever the rebuild did, and returns
GetClear(p) ==
    /\ pc[p] = "get_clear"
    /\ cache' = [cache EXCEPT !.view[ViewOf(p)].refreshing = FALSE]
    /\ Return(p, cache.view[ViewOf(p)].snapshot)
    /\ UNCHANGED <<dbvars, expected, mixCount, gatewayCount,
                   registrationLock, started, clock, statuses, reports,
                   uptime>>

\* the steps of a caller that is inside Get
GetStep(p) ==
    \/ GetCheck(p)
    \/ GetCas(p)
    \/ \E ok \in BOOLEAN : GetRebuild(p, ok)
    \/ GetClear(p)

\* a service constructed at time 0 over a store with a qualified mix and a
\* gateway below the threshold
InitCache ==
    /\ mixes = [i \in {"a"} |-> NewRow(Addr17, ReputationThreshold)]
    /\ gateways = [i \in {"b"} |-> NewGatewayRow(Addr27, 0)]
    /\ removedMixes = {}
    /\ removedGateways = {}
    /\ expected = [i \in Ids |-> 0]
    /\ clock = 0
    /\ Idle
    /\ statuses = EmptyBag
    /\ reports = EmptyTable
    /\ uptime = 0
    /\ cache = Primed(Store, 0)

NextCache ==
    \/ \E p \in Procs, view \in Views : GetIssue(p, view)
    \/ \E p \in Procs : GetCheck(p)
    \/ \E p \in Procs : GetCas(p)
    \/ \E p \in Procs, ok \in BOOLEAN : GetRebuild(p, ok)
    \/ \E p \in Procs : GetClear(p)
    \/ Tick

\* a goroutine that is inside Get keeps running
SpecCache ==
    /\ InitCache
    /\ [][NextCache]_vars
    /\ \A p \in Procs : WF_vars(GetStep(p))

\* C24: the calls of Get(view) that find the snapshot expired trigger
\* exactly one rebuild from the store, however their TTL checks, their
\* compare-and-swap attempts and the winner's completion interleave: as long
\* as the view can have expired only once (it is primed at 0, so a rebuilt
\* snapshot cannot expire before 2 * TTL + 2) and no rebuild failed, the
\* view was rebuilt at most once.
OneRebuildPerExpiry ==
    \A v \in Views :
        (clock <= 2 * TopologyCacheTTL + 1 /\ cache.failures[v] = 0) =>
            cache.rebuilds[v] <= 1

\* C25: a refreshing flag that is set is cleared again, also when the
\* rebuild fails.
FlagCleared ==
    \A v \in Views :
        cache.view[v].refreshing ~> ~cache.view[v].refreshing

\* after a rebuild of the full view failed, a later caller is its refresher
RefresherAfterFailureSeen ==
    /\ cache.failures["full"] = 1
    /\ cache.rebuilds["full"] = 0
    /\ cache.view["full"].refreshing
    /\ pc["p1"] = "idle"
    /\ resp["p1"] = [op |-> "Get", status |-> 200]
    /\ pc["p2"] = "get_rebuild"

----------------------------------------------------------------------------
(* Batches of reputation changes *)

\* the tables a batch is run on: each identity unknown, or registered with
\* any reputation
MixTables ==
    UNION {[S -> {NewRow(Addr17, r) : r \in 0 .. MaxRep}] : S \in SUBSET Ids}
GatewayTables ==
    UNION {[S -> {NewGatewayRow(Addr27, r) : r \in 0 .. MaxRep}] :
              S \in SUBSET Ids}

\* the change an observation makes to the reputation of its node
ReputationChange(up) ==
    IF up THEN ReportSuccessReputationIncrease
    ELSE ReportFailureReputationDecrease

\* the observations of a batch: node and outcome
Observations == Ids \X BOOLEAN
Batches == {<<>>} \cup {<<x>> : x \in Observations}
              \cup {<<x, y>> : x, y \in Observations}

\* the sum of the changes of the observations of node id in the batch
RECURSIVE SumFor(_, _)
SumFor(batch, id) ==
    IF batch = <<>> THEN 0
    ELSE (IF Head(batch)[1] = id THEN ReputationChange(Head(batch)[2]) ELSE 0)
         + SumFor(Tail(batch), id)

\* Service.SaveBatchStatusReport: the map of node -> summed change it hands
\* to BatchUpdateReputation
ReputationChangeMap(batch) ==
    [id \in {batch[i][1] : i \in DOMAIN batch} |-> SumFor(batch, id)]

\* UpdateReputation called once for every entry of the map, in the order given
RECURSIVE UpdateEach(_, _, _, _)
UpdateEach(m, g, reputationChangeMap, order) ==
    IF order = <<>> THEN [mixes |-> m, gateways |-> g]
    ELSE LET r == UpdateReputation(m, g, Head(order),
                                   reputationChangeMap[Head(order)])
         IN  UpdateEach(r.mixes, r.gateways, reputationChangeMap, Tail(order))

\* UpdateReputation called once for every observation, in batch order
RECURSIVE UpdateOneByOne(_, _, _)
UpdateOneByOne(m, g, batch) ==
    IF batch = <<>> THEN [mixes |-> m, gateways |-> g]
    ELSE LET r == UpdateReputation(m, g, Head(batch)[1],
                                   ReputationChange(Head(batch)[2]))
         IN  UpdateOneByOne(r.mixes, r.gateways, Tail(batch))

\* no row leaves the range of the model
RepsWithinCap(m, g) ==
    /\ \A i \in DOMAIN m : m[i].rep <= MaxRep
    /\ \A i \in DOMAIN g : g[i].rep <= MaxRep

\* a call of Db.BatchUpdateReputation, its argument kept
CallBatchUpdateReputation(reputationChangeMap, order) ==
    /\ \A id \in DOMAIN reputationChangeMap :
          /\ WithinCap(mixes, id, reputationChangeMap[id])
          /\ WithinCap(gateways, id, reputationChangeMap[id])
    /\ LET r == BatchUpdateReputation(mixes, gateways, reputationChangeMap, order)
       IN  /\ mixes' = r.mixes
           /\ gateways' = r.gateways
    /\ lastOp' = [op |-> "BatchUpdateReputation", id |-> "*",
                  map |-> reputationChangeMap]
    /\ UNCHANGED <<removedMixes, removedGateways, ret, bgvars, clock, repvars>>

\* the reputation part of Service.SaveBatchStatusReport
BatchReputation(batch, order) ==
    /\ LET one == UpdateOneByOne(mixes, gateways, batch)
       IN  RepsWithinCap(one.mixes, one.gateways)
    /\ LET r == BatchUpdateReputation(mixes, gateways,
                                      ReputationChangeMap(batch), order)
       IN  /\ RepsWithinCap(r.mixes, r.gateways)
           /\ mixes' = r.mixes
           /\ gateways' = r.gateways
    /\ lastOp' = [op |-> "SaveBatchStatusReport", id |-> "*", batch |-> batch]
    /\ UNCHANGED <<removedMixes, removedGateways, ret, bgvars, clock, repvars>>

InitBatch ==
    /\ mixes \in MixTables
    /\ gateways \in GatewayTables
    /\ removedMixes = {}
    /\ removedGateways = {}
    /\ expected = [i \in Ids |-> 0]
    /\ clock = 0
    /\ Quiet

NextBatch ==
    \/ \E S \in SUBSET Ids : \E map \in [S -> Deltas], o \in Orders(S) :
          CallBatchUpdateReputation(map, o)
    \/ \E batch \in Batches :
          \E o \in Orders(DOMAIN ReputationChangeMap(batch)) :
             BatchReputation(batch, o)
    \/ \E id \in Ids, d \in Deltas : DbUpdateReputation(id, d)

SpecBatch == InitBatch /\ [][NextBatch]_vars

\* C31: BatchUpdateReputation(m) leaves the mix and gateway tables as
\* UpdateReputation(id, m[id]) called once per entry of m leaves them, in
\* whatever order the entries are taken; an entry for an unknown identity or
\* with a blocked decrement changes nothing and leaves the other entries
\* their effect.
BatchIsEachEntry ==
    [][lastOp'.op = "BatchUpdateReputation" =>
          LET map == lastOp'.map
          IN  \A o2 \in Orders(DOMAIN map) :
                LET each == UpdateEach(mixes, gateways, map, o2)
                IN  /\ mixes' = each.mixes
                    /\ gateways' = each.gateways
                    /\ \A id \in DOMAIN map :
                          ~UpdateReputation(mixes, gateways, id, map[id]).ret =>
                             /\ id \in DOMAIN mixes => mixes'[id] = mixes[id]
                             /\ id \in DOMAIN gateways =>
                                   gateways'[id] = gateways[id]]_vars

\* a batch took 2 off nobody: the decrement of mix a was blocked at 1, and
\* the entry of b, applied, left mix b with 2
BlockedEntrySeen ==
    /\ lastOp = [op |-> "BatchUpdateReputation", id |-> "*",
                 map |-> [i \in Ids |-> IF i = "a" THEN -2 ELSE 1]]
    /\ "a" \in DOMAIN mixes /\ mixes["a"].rep = 1
    /\ "a" \notin DOMAIN gateways
    /\ "b" \in DOMAIN mixes /\ mixes["b"].rep = 2

\* C37: for a batch with several observations of one node, the node's
\* summed change applied through BatchUpdateReputation leaves the node with
\* the reputation that UpdateReputation, called for each observation in batch
\* order, leaves it with.
PreSummedIsOneByOne ==
    [][lastOp'.op = "SaveBatchStatusReport" =>
          LET one == UpdateOneByOne(mixes, gateways, lastOp'.batch)
          IN  /\ mixes' = one.mixes
              /\ gateways' = one.gateways]_vars

----------------------------------------------------------------------------
(* The IP version a node never reported on *)

\* the fields of one IP version of a report
FieldsOf(report, ipVersion) ==
    IF ipVersion = "4"
    THEN <<report.mostRecentIPV4, report.last5MinutesIPV4,
           report.lastHourIPV4, report.lastDayIPV4>>
    ELSE <<report.mostRecentIPV6, report.last5MinutesIPV6,
           report.lastHourIPV6, report.lastDayIPV6>>

\* no observation of the node over the version is stored
NeverObserved(id, ipVersion) ==
    \A x \in BagToSet(statuses) : ~(x.pubKey = id /\ x.ipVersion = ipVersion)

\* C32: the report fields of an IP version a node has had no observation
\* of (mostRecent, last5Minutes, lastHour, lastDay) are false/0 and stay so
\* through every step that is not an observation of the node over that
\* version: observations of the other version and runs of the daily job.
UnobservedVersionStaysDefault ==
    [][\A id \in Ids, v \in IPVersions :
          ( /\ NeverObserved(id, v)
            /\ FieldsOf(LoadMixReport(reports, id), v) = <<FALSE, 0, 0, 0>>
            /\ ~( /\ lastOp'.op = "SaveMixStatusReport"
                  /\ clock' # clock
                  /\ lastOp'.id = id /\ lastOp'.ipVersion = v)
            /\ ~( /\ lastOp'.op = "SaveBatchMixStatusReport"
                  /\ clock' # clock
                  /\ \E i \in DOMAIN lastOp'.batch :
                        /\ lastOp'.batch[i].pubKey = id
                        /\ lastOp'.batch[i].ipVersion = v) )
          => FieldsOf(LoadMixReport(reports', id), v) = <<FALSE, 0, 0, 0>>]_vars

----------------------------------------------------------------------------
(* The cached count at the check under the lock *)

\* C33: whenever a mix registration stands at its capacity check under the
\* registration lock, the cached mix count it is about to read is not lower
\* than the number of registered mixes: the handlers that assign the cached
\* count without the lock never leave a value below the actual count.
CachedCountNotLow ==
    \A p \in Procs : pc[p] = "m_check3" => mixCount >= MixCount(mixes)

----------------------------------------------------------------------------
(* Writers of one report: one goroutine per request and the daily job, one *)
(* step per access to the store                                            *)

\* the observations posted in one run
MaxObservations == 2

\* controller.CreateMixStatus: the status is stamped and inserted
ObsCreate(p, mixStatus) ==
    /\ pc[p] = "idle"
    /\ BagCardinality(statuses) < MaxObservations
    /\ Elapse
    /\ statuses' = statuses (+) SetToBag({Persisted(mixStatus, clock')})
    /\ Goto(p, "r_load")
    /\ call' = [call EXCEPT ![p] =
                  [NoCall EXCEPT !.op = "SaveMixStatusReport",
                                 !.id = mixStatus.pubKey,
                                 !.order = <<Persisted(mixStatus, clock')>>]]
    /\ UNCHANGED <<dbvars, seqvars, expected, ctlvars, reports, uptime, cache>>

\* Service.SaveMixStatusReport: Db.LoadMixReport
ObsLoad(p) ==
    /\ pc[p] = "r_load"
    /\ call' = [call EXCEPT ![p].map = <<LoadMixReport(reports, call[p].id)>>]
    /\ Goto(p, "r_update")
    /\ UNCHANGED <<dbvars, seqvars, expected, ctlvars, clock, repvars>>

\* Service.SaveMixStatusReport: updateMixReportUpToLastHour on the loaded
\* report, with the statuses stored by now
ObsUpdate(p) ==
    /\ pc[p] = "r_update"
    /\ call' = [call EXCEPT ![p].map =
                  <<updateMixReportUpToLastHour(statuses, call[p].map[1],
                                                call[p].order[1], clock)>>]
    /\ Goto(p, "r_save")
    /\ UNCHANGED <<dbvars, seqvars, expected, ctlvars, clock, repvars>>

\* Service.SaveMixStatusReport: Db.SaveMixStatusReport of the whole report
ObsSave(p) ==
    /\ pc[p] = "r_save"
    /\ reports' = DbSaveMixStatusReport(reports, call[p].map[1])
    /\ lastOp' = [op |-> "SaveMixStatusReport", id |-> call[p].id]
    /\ Finish(p, "CreateMixStatus", 201)
    /\ UNCHANGED <<dbvars, ret, expected, mixCount, gatewayCount,
                   registrationLock, started, clock, statuses, uptime, cache>>

\* Service.updateLastDayMixReports: Db.GetActiveMixes and
\* Db.BatchLoadMixReports
DayLoad(p, order) ==
    /\ pc[p] = "idle"
    /\ call' = [call EXCEPT ![p] =
                  [NoCall EXCEPT !.op = "updateLastDayMixReports",
                                 !.d = Ago(clock, Day),
                                 !.map = BatchLoadMixReports(reports, order)]]
    /\ Goto(p, "d_update")
    /\ UNCHANGED <<dbvars, seqvars, expected, ctlvars, clock, repvars>>

\* Service.updateLastDayMixReports: the loop over the loaded reports
DayUpdate(p) ==
    /\ pc[p] = "d_update"
    /\ call' = [call EXCEPT ![p].map =
                  [i \in DOMAIN call[p].map |->
                      LastDayOf(statuses, call[p].map[i], call[p].d)]]
    /\ Goto(p, "d_save")
    /\ UNCHANGED <<dbvars, seqvars, expected, ctlvars, clock, repvars>>

\* Service.updateLastDayMixReports: Db.SaveBatchMixStatusReport of the
\* whole reports, and the return of the batch
DaySave(p) ==
    /\ pc[p] = "d_save"
    /\ reports' = DbSaveBatchMixStatusReport(reports, call[p].map)
    /\ ret' = call[p].map
    /\ lastOp' = [op |-> "updateLastDayMixReports", id |-> "*"]
    /\ Finish(p, "updateLastDayMixReports", 0)
    /\ UNCHANGED <<dbvars, expected, mixCount, gatewayCount,
                   registrationLock, started, clock, statuses, uptime, cache>>

\* a service without observations; the daily job has not returned a batch
InitWriters ==
    /\ mixes = EmptyTable
    /\ gateways = EmptyTable
    /\ removedMixes = {}
    /\ removedGateways = {}
    /\ expected = [i \in Ids |-> 0]
    /\ clock = 0
    /\ lastOp = [op |-> "none", id |-> "*"]
    /\ ret = <<>>
    /\ pc = [p \in Procs |-> "idle"]
    /\ call = [p \in Procs |-> NoCall]
    /\ mixCount = 0
    /\ gatewayCount = 0
    /\ registrationLock = "free"
    /\ started = FALSE
    /\ resp = [p \in Procs |-> NoResp]
    /\ statuses = EmptyBag
    /\ reports = EmptyTable
    /\ uptime = 0
    /\ cache = NoCache

NextWriters ==
    \/ \E p \in Procs, v \in IPVersions, up \in BOOLEAN :
          ObsCreate(p, MixStatus("a", v, up))
    \/ \E p \in Procs : ObsLoad(p)
    \/ \E p \in Procs : ObsUpdate(p)
    \/ \E p \in Procs : ObsSave(p)
    \/ \E p \in Procs :
          \E order \in Orders(GetActiveMixes(statuses, Ago(clock, Day))
                                 \cap DOMAIN reports) : DayLoad(p, order)
    \/ \E p \in Procs : DayUpdate(p)
    \/ \E p \in Procs : DaySave(p)

SpecWriters == InitWriters /\ [][NextWriters]_vars

\* the stored observations of a node over an IP version
ObservationsOf(id, ipVersion) ==
    {x \in BagToSet(statuses) : x.pubKey = id /\ x.ipVersion = ipVersion}

\* C34: no update of a report is lost to a writer that was between its
\* load and its save: once every observation and every daily refresh has
\* completed, the report of a node says, for an IP version with a single
\* observation, what that observation said (mostRecent), and it has the
\* lastDay values of the batch the last completed refresh returned.
NoReportUpdateLost ==
    (\A p \in Procs : pc[p] = "idle") =>
        /\ \A id \in Ids, v \in IPVersions :
              Cardinality(ObservationsOf(id, v)) = 1 =>
                 /\ id \in DOMAIN reports
                 /\ \A x \in ObservationsOf(id, v) :
                       MostRecent(reports[id], v) = x.up
        /\ \A i \in DOMAIN ret :
              /\ reports[ret[i].pubKey].lastDayIPV4 = ret[i].lastDayIPV4
              /\ reports[ret[i].pubKey].lastDayIPV6 = ret[i].lastDayIPV6

----------------------------------------------------------------------------
(* Registering again *)

\* C35: a registered mix that registers again under its identity, with the
\* address it is registered with and the required version, is not answered
\* with the Conflict of the duplicate address check.
OwnAddressAccepted ==
    [][\A p \in Procs, id \in Ids, ver \in Versions :
          \A addr \in RegAddrs(id) :
             ( /\ MixDupVersion(p, id, addr, ver)
               /\ id \in Live(mixes)
               /\ mixes[id].host = addr
               /\ VersionOk(ver) )
             => resp'[p] # Conflict("RegisterMixPresence")]_vars

\* C36: the write of a mix registration leaves the identity with
\* reputation 0 when the identity has no row, and with the reputation of
\* its row when it has one, be the identity registered, unregistered or
\* removed.
RegistrationKeepsReputation ==
    [][\A p \in Procs :
          (pc[p] = "m_upsert" /\ pc'[p] = "m_clear") =>
             mixes'[call[p].id].rep =
                IF call[p].id \in DOMAIN mixes
                THEN mixes[call[p].id].rep ELSE 0]_vars

\* a removed mix with a reputation above 0 has registered again: its row is
\* back with that reputation, the removed set not yet cleared
RemovedBackWithReputationSeen ==
    \E p \in Procs :
        /\ pc[p] = "m_clear"
        /\ call[p].id \in removedMixes
        /\ mixes[call[p].id].rep > 0

----------------------------------------------------------------------------
(* Nodes that are always up *)

\* every stored observation of the node says up
AlwaysUp(st, id) == \A x \in BagToSet(st) : x.pubKey = id => x.up

----------------------------------------------------------------------------
(* Batches of observations, inserted in chunks *)

\* MaxStatusesPerInsertion, scaled down from the 3000 of the code
MaxStatusesPerInsertion == 3

\* the longest list handed over: two full chunks and one row
MaxStatusList == 2 * MaxStatusesPerInsertion + 1

\* the lists of persisted statuses handed to BatchAddMixStatus
StatusLists ==
    UNION {[1..n -> {Persisted(MixStatus("a", "4", up), 0) : up \in BOOLEAN}] :
              n \in 0..MaxStatusList}

\* the loop of splitPersistedMixStatuses: a chunk is cut off the front for
\* as long as the rest is longer than chunkSize, and the rest is appended
RECURSIVE splitLoop(_, _, _)
splitLoop(dataCopy, chunks, chunkSize) ==
    IF chunkSize < Len(dataCopy)
    THEN splitLoop(SubSeq(dataCopy, chunkSize + 1, Len(dataCopy)),
                   Append(chunks, SubSeq(dataCopy, 1, chunkSize)), chunkSize)
    ELSE Append(chunks, dataCopy)

\* splitPersistedMixStatuses; splitPersistedGatewayStatuses is a copy of it
splitPersistedMixStatuses(statusList, chunkSize) ==
    splitLoop(statusList, <<>>, chunkSize)

\* db.orm.Create(statusChunk) for each chunk in turn
RECURSIVE CreateChunks(_, _)
CreateChunks(st, chunks) ==
    IF chunks = <<>> THEN st
    ELSE CreateChunks(BatchAddMixStatus(st, Head(chunks)), Tail(chunks))

\* Db.BatchAddMixStatus with the inserts it issues, kept in ret
DbBatchAddMixStatus(statusList) ==
    LET chunks == splitPersistedMixStatuses(statusList, MaxStatusesPerInsertion)
    IN  /\ BagCardinality(statuses) + Len(statusList) <= MaxStatusList
        /\ statuses' = CreateChunks(statuses, chunks)
        /\ ret' = chunks
        /\ lastOp' = [op |-> "BatchAddMixStatus", id |-> "*",
                      statusList |-> statusList]
        /\ UNCHANGED <<mixes, gateways, removedMixes, removedGateways, pc, call,
                       expected, mixCount, gatewayCount, registrationLock,
                       started, resp, clock, reports, uptime, cache>>

InitChunks ==
    /\ mixes = EmptyTable
    /\ gateways = EmptyTable
    /\ removedMixes = {}
    /\ removedGateways = {}
    /\ expected = [i \in Ids |-> 0]
    /\ clock = 0
    /\ lastOp = [op |-> "none", id |-> "*"]
    /\ ret = <<>>
    /\ pc = [p \in Procs |-> "idle"]
    /\ call = [p \in Procs |-> NoCall]
    /\ mixCount = 0
    /\ gatewayCount = 0
    /\ registrationLock = "free"
    /\ started = FALSE
    /\ resp = [p \in Procs |-> NoResp]
    /\ statuses = EmptyBag
    /\ reports = EmptyTable
    /\ uptime = 0
    /\ cache = NoCache

NextChunks == \E statusList \in StatusLists : DbBatchAddMixStatus(statusList)

SpecChunks == InitChunks /\ [][NextChunks]_vars

\* the rows of the chunks, one chunk after the other
RECURSIVE Flatten(_)
Flatten(chunks) ==
    IF chunks = <<>> THEN <<>> ELSE Head(chunks) \o Flatten(Tail(chunks))

\* the inserts put every row of the list into the table once, in the order
\* of the list, no insert has more than MaxStatusesPerInsertion rows and
\* every insert but the last has exactly that many
ChunksCarryTheList ==
    [][lastOp'.op = "BatchAddMixStatus" =>
          /\ Flatten(ret') = lastOp'.statusList
          /\ statuses' = BatchAddMixStatus(statuses, lastOp'.statusList)
          /\ \A i \in DOMAIN ret' :
                /\ Len(ret'[i]) <= MaxStatusesPerInsertion
                /\ i < Len(ret') => Len(ret'[i]) = MaxStatusesPerInsertion]_vars

\* C39: BatchAddMixStatus inserts every observation of the batch once and
\* in input order, in consecutive chunks of at most MaxStatusesPerInsertion
\* rows of which all but the last are full, and issues no insert with an
\* empty chunk, whatever the length of the batch, 0 and the multiples of
\* MaxStatusesPerInsertion included.
ChunkedInsertion ==
    [][lastOp'.op = "BatchAddMixStatus" =>
          /\ Flatten(ret') = lastOp'.statusList
          /\ statuses' = BatchAddMixStatus(statuses, lastOp'.statusList)
          /\ \A i \in DOMAIN ret' :
                /\ Len(ret'[i]) <= MaxStatusesPerInsertion
                /\ i < Len(ret') => Len(ret'[i]) = MaxStatusesPerInsertion
                /\ ret'[i] # <<>>]_vars

\* a batch of exactly two full chunks has gone in with two inserts
ExactMultipleSeen ==
    /\ lastOp.op = "BatchAddMixStatus"
    /\ Len(lastOp.statusList) = 2 * MaxStatusesPerInsertion
    /\ Len(ret) = 2

\* only the empty batch makes an insert with an empty chunk
EmptyChunkOnlyForEmptyBatch ==
    lastOp.op = "BatchAddMixStatus" =>
        \A i \in DOMAIN ret : ret[i] = <<>> => lastOp.statusList = <<>>

====
